---------------------------- MODULE Spec2Model ----------------------------
(***************************************************************************)
(* A state-machine model of src/mojoshader_sdlgpu.c (MojoShader's SDL GPU  *)
(* back end): the program linker and its cache, shader reference counting  *)
(* and eviction, and the precompiled-binary archive.                       *)
(*                                                                         *)
(* Every public call runs to completion on the caller's thread, so each    *)
(* call is one action.  Heap objects are named by instance numbers (the    *)
(* n-th ShaderData, the n-th program record); 0 is the NULL pointer.       *)
(*                                                                         *)
(* Invalid memory accesses have two outcomes.  A read of a freed record    *)
(* either ends the process or returns the values last stored in the        *)
(* record.  The memcpy through a NULL key pointer either ends the process  *)
(* or stores the bytes at address 0, where every later read through a      *)
(* NULL key finds them.                                                    *)
(***************************************************************************)
EXTENDS Integers, Sequences, FiniteSets, TLC

\* ------------------------------------------------------------------------
\* Bounds of the model
\* ------------------------------------------------------------------------
MaxShaders == 2
MaxPrograms == 2
MaxAddRefs == 2
MaxBlobShaders == 3
MaxRegister == 5

\* ------------------------------------------------------------------------
\* Program constants
\* ------------------------------------------------------------------------
NULL == 0
MaxAttribs == 16
HASH_FACTOR == 31
HashTableLen == 256
TagModulus == 65536
UniformStride == 16
SpvOpCopyObject == 83
SpvOpConvertSToF == 111
SpvOpConvertUToF == 112
OpcodeModulus == 65536
WordBytes == 4
LimbModulus == 65536

\* ------------------------------------------------------------------------
\* Fixed-width unsigned integers.  A uint32_t is a pair of 16-bit limbs
\* <<hi, lo>>, a uint64_t four limbs <<l3, l2, l1, l0>> (most significant
\* first), so that the arithmetic wraps exactly as the C types do.
\* ------------------------------------------------------------------------
U32(n) == << (n \div LimbModulus) % LimbModulus, n % LimbModulus >>

\* hash * 31 + x in uint32_t, x < 2^16
U32MulAdd(h, k, x) ==
    LET lo == h[2] * k + x
        hi == h[1] * k + (lo \div LimbModulus)
    IN  << hi % LimbModulus, lo % LimbModulus >>

U32Mod(h, n) == (((h[1] % n) * (LimbModulus % n)) + (h[2] % n)) % n

U64(n) == << 0, 0, (n \div LimbModulus) % LimbModulus, n % LimbModulus >>
U64Max == << LimbModulus - 1, LimbModulus - 1, LimbModulus - 1, LimbModulus - 1 >>

\* hash + k in uint64_t (wraps at 2^64), 0 <= k < 2^16
U64Add(h, k) ==
    LET s0 == h[4] + k
        s1 == h[3] + (s0 \div LimbModulus)
        s2 == h[2] + (s1 \div LimbModulus)
        s3 == h[1] + (s2 \div LimbModulus)
    IN  << s3 % LimbModulus, s2 % LimbModulus, s1 % LimbModulus, s0 % LimbModulus >>

\* hash % n in uint64_t, 1 <= n < 2^15
U64Mod(h, n) ==
    LET r3 == h[1] % n
        r2 == (r3 * LimbModulus + h[2]) % n
        r1 == (r2 * LimbModulus + h[3]) % n
    IN  (r1 * LimbModulus + h[4]) % n

\* ------------------------------------------------------------------------
\* Vertex attribute layouts (MOJOSHADER_sdlVertexAttribute)
\* ------------------------------------------------------------------------
Attr(u, i, f) == [usage |-> u, usageIndex |-> i, vertexElementFormat |-> f]
ZeroAttr == Attr(0, 0, 0)

\* The layouts the application passes to link.  The second to fifth differ
\* from the first in exactly one of usage, usageIndex, vertexElementFormat
\* and the attribute count (the empty layout); the sixth adds an attribute;
\* the seventh differs from the sixth in both formats, by amounts that leave
\* hash_shaders unchanged modulo the table length, so that the two keys
\* share a bucket and only match_shaders tells them apart.
Layouts ==
    { << Attr(0, 0, 2) >>,
      << Attr(1, 0, 2) >>,
      << Attr(0, 1, 2) >>,
      << Attr(0, 0, 5) >>,
      << >>,
      << Attr(0, 0, 2), Attr(1, 0, 0) >>,
      << Attr(0, 0, 10), Attr(1, 0, 8) >> }

\* Two of them, for the specifications in which the layout is not the point.
SomeLayouts == { << >>, << Attr(0, 0, 2) >> }

\* LinkedShaderData as MOJOSHADER_sdlLinkProgram fills it: the 16 slots
\* memset to zero, then vertexAttributeCount descriptors stored in order
\* from slot 1 on.  The loop has no bound but the count: descriptor i > 16
\* is stored in the memory that follows the 16 slots, shown here as slot i.
MakeLinkedShaderData(vshader, pshader, va) ==
    [ vertex |-> vshader,
      fragment |-> pshader,
      vertexAttributes |->
          [i \in 1..(IF Len(va) > MaxAttribs THEN Len(va) ELSE MaxAttribs) |->
              IF i <= Len(va) THEN va[i] ELSE ZeroAttr],
      vertexAttributeCount |-> Len(va) ]


\* ------------------------------------------------------------------------
\* State
\* ------------------------------------------------------------------------
VARIABLES
    ctxState,            \* "alive" | "destroyed" | "crashed" (the process ended)
    shaderData,          \* every MOJOSHADER_sdlShaderData ever allocated
    shaderTagCounter,    \* static uint16_t shaderTagCounter
    bound_vshader_data,  \* ctx->bound_vshader_data
    bound_pshader_data,  \* ctx->bound_pshader_data
    bound_program,       \* ctx->bound_program
    linker_cache,        \* ctx->linker_cache: [created, items]
    programs,            \* every MOJOSHADER_sdlProgram record ever allocated
    handles,             \* every SDL_GPUShader the host API was asked for
    keys,                \* every heap-allocated LinkedShaderData
    blob,                \* ctx->blob and the archive file it was loaded from
    error_buffer,        \* static char error_buffer[1024]
    last,                \* what the most recent call did and returned
    linked,              \* history: what link returned, per (v, f, layout)
    refHistory,          \* history: add-refs and deletes seen by each shader
    maxTag,              \* history: the largest tag any ShaderData was given
    reg_file,            \* ctx->vs_reg_file_f ... ctx->ps_reg_file_b
    uniform_staging,     \* ctx->uniform_staging, ctx->uniform_staging_length
    output               \* a vertex shader's parseData->output: IR, patch table

vars == << ctxState, shaderData, shaderTagCounter, bound_vshader_data,
           bound_pshader_data, bound_program, linker_cache, programs, handles,
           keys, blob, error_buffer, last, linked, refHistory, maxTag,
           reg_file, uniform_staging, output >>

ShaderIds == 1..MaxShaders
ProgramIds == 1..MaxPrograms
HandleIds == 1..(2 * MaxPrograms)

\* The handles the n-th program record's link attempt asks the host API for.
VertexHandleOf(p) == 2 * p - 1
PixelHandleOf(p) == 2 * p

\* malloc hands out the next instance never used before.
RECURSIVE FirstUnused(_, _, _)
FirstUnused(heap, n, max) ==
    IF n > max THEN NULL
    ELSE IF heap[n].st = "unalloc" THEN n
    ELSE FirstUnused(heap, n + 1, max)

\* free(): a second free of the same block is recorded, not hidden.
Freed(st) == IF st = "live" THEN "freed" ELSE "doublefree"

\* SDL_ReleaseGPUShader on one handle.
Released(st) == IF st = "live" THEN "released" ELSE "doublerelease"

\* ------------------------------------------------------------------------
\* hash_shaders / match_shaders (the cache's hash and equality callbacks)
\* ------------------------------------------------------------------------
RECURSIVE HashAttrs(_, _, _)
HashAttrs(s, i, hash) ==
    IF i > s.vertexAttributeCount THEN hash
    ELSE LET h1 == U32MulAdd(hash, HASH_FACTOR, s.vertexAttributes[i].usage)
             h2 == U32MulAdd(h1, HASH_FACTOR, s.vertexAttributes[i].usageIndex)
             h3 == U32MulAdd(h2, HASH_FACTOR,
                             s.vertexAttributes[i].vertexElementFormat)
         IN  \* h3 is passed on as a value
             CHOOSE r \in { HashAttrs(s, i + 1, h) : h \in {h3} } : TRUE

hash_shaders(sd, s) ==
    LET h0 == HashAttrs(s, 1, U32(s.vertexAttributeCount))
        h1 == U32MulAdd(h0, HASH_FACTOR, sd[s.vertex].tag)
    IN  U32MulAdd(h1, HASH_FACTOR, sd[s.fragment].tag)

match_shaders_ignoring_format(sd, a, b) ==
    LET av == IF a.vertex # NULL THEN sd[a.vertex].tag ELSE 0
        bv == IF b.vertex # NULL THEN sd[b.vertex].tag ELSE 0
        af == IF a.fragment # NULL THEN sd[a.fragment].tag ELSE 0
        bf == IF b.fragment # NULL THEN sd[b.fragment].tag ELSE 0
    IN  /\ av = bv
        /\ af = bf
        /\ a.vertexAttributeCount = b.vertexAttributeCount
        /\ \A i \in 1..a.vertexAttributeCount :
              /\ a.vertexAttributes[i].usage = b.vertexAttributes[i].usage
              /\ a.vertexAttributes[i].usageIndex = b.vertexAttributes[i].usageIndex

match_shaders_never(sd, a, b) == FALSE

match_shaders(sd, a, b) ==
    LET av == IF a.vertex # NULL THEN sd[a.vertex].tag ELSE 0
        bv == IF b.vertex # NULL THEN sd[b.vertex].tag ELSE 0
        af == IF a.fragment # NULL THEN sd[a.fragment].tag ELSE 0
        bf == IF b.fragment # NULL THEN sd[b.fragment].tag ELSE 0
    IN  /\ av = bv
        /\ af = bf
        /\ a.vertexAttributeCount = b.vertexAttributeCount
        /\ \A i \in 1..a.vertexAttributeCount :
              /\ a.vertexAttributes[i].usage = b.vertexAttributes[i].usage
              /\ a.vertexAttributes[i].usageIndex = b.vertexAttributes[i].usageIndex
              /\ a.vertexAttributes[i].vertexElementFormat
                    = b.vertexAttributes[i].vertexElementFormat

\* ------------------------------------------------------------------------
\* The hash-table collaborator (hash_find, hash_insert, hash_remove,
\* hash_iter_keys).  A table is the sequence of its items in iteration
\* order; an item is [key, value, item, bucket]: item names the heap block
\* the key lives in (NULL: the key is read at address 0), bucket is the
\* chain the item was linked into when it was inserted.
\* ------------------------------------------------------------------------
calc_hash(sd, key) == U32Mod(hash_shaders(sd, key), HashTableLen)

RECURSIVE FindFrom(_, _, _, _, _)
FindFrom(sd, items, key, bucket, i) ==
    IF i > Len(items) THEN 0
    ELSE IF items[i].bucket = bucket /\ match_shaders(sd, items[i].key, key)
         THEN i
         ELSE FindFrom(sd, items, key, bucket, i + 1)

\* hash_find: the position of the first item of key's bucket that matches,
\* 0 when there is none.
hash_find(sd, items, key) == FindFrom(sd, items, key, calc_hash(sd, key), 1)

RemoveAt(items, i) ==
    SubSeq(items, 1, i - 1) \o SubSeq(items, i + 1, Len(items))

\* hash_iter_keys: the position of the item after the one `iter` names
\* (the first item when iter is 0), 0 when the iteration is over.
RECURSIVE PositionOf(_, _, _)
PositionOf(items, value, i) ==
    IF i > Len(items) THEN 0
    ELSE IF items[i].value = value THEN i
    ELSE PositionOf(items, value, i + 1)

hash_iter_keys(items, iter) ==
    LET at == IF iter = 0 THEN 0 ELSE PositionOf(items, iter, 1)
    IN  IF iter # 0 /\ at = 0 THEN 0
        ELSE IF at + 1 > Len(items) THEN 0
        ELSE at + 1

\* ------------------------------------------------------------------------
\* Program teardown and eviction.  `m` bundles what these calls change:
\* [items, programs, handles, keys, bound_program], and `held`, the programs
\* earlier link calls returned for a layout and shader pair still alive.
\* ------------------------------------------------------------------------
MOJOSHADER_sdlDeleteProgram_always_unbinding(m, p) ==
    LET vs == m.programs[p].vertexShader
        ps == m.programs[p].pixelShader
        h1 == IF vs # NULL
              THEN [m.handles EXCEPT ![vs] = Released(@)] ELSE m.handles
        h2 == IF ps # NULL THEN [h1 EXCEPT ![ps] = Released(@)] ELSE h1
    IN  [m EXCEPT !.bound_program = NULL,
                  !.handles = h2,
                  !.programs[p].st = Freed(@)]

MOJOSHADER_sdlDeleteProgram(m, p) ==
    LET vs == m.programs[p].vertexShader
        ps == m.programs[p].pixelShader
        h1 == IF vs # NULL
              THEN [m.handles EXCEPT ![vs] = Released(@)] ELSE m.handles
        h2 == IF ps # NULL THEN [h1 EXCEPT ![ps] = Released(@)] ELSE h1
    IN  [m EXCEPT !.bound_program = IF @ = p THEN NULL ELSE @,
                  !.handles = h2,
                  !.programs[p].st = Freed(@)]

\* The cache's eviction callback: frees the key, deletes the program.
nuke_shaders(m, it) ==
    LET k == IF it.item # NULL
             THEN [m.keys EXCEPT ![it.item] = Freed(@)] ELSE m.keys
    IN  MOJOSHADER_sdlDeleteProgram([m EXCEPT !.keys = k], it.value)

\* hash_remove: unlinks the first item of key's bucket that matches key and
\* hands it to the eviction callback.
hash_remove(sd, m, key) ==
    LET i == hash_find(sd, m.items, key)
    IN  IF i = 0 THEN m
        ELSE nuke_shaders([m EXCEPT !.items = RemoveAt(m.items, i)], m.items[i])

\* hash_destroy: every item goes to the eviction callback.
RECURSIVE hash_destroy(_)
hash_destroy(m) ==
    IF m.items = << >> THEN m
    ELSE hash_destroy(nuke_shaders([m EXCEPT !.items = Tail(m.items)],
                                   Head(m.items)))

\* The scan of MOJOSHADER_sdlDeleteShader: `cur` is the position of the item
\* whose key the loop holds (0: no more keys).  The iterator is advanced
\* before the item is removed.
RECURSIVE EvictScan(_, _, _, _)
EvictScan(sd, m, cur, shader) ==
    IF cur = 0 THEN m
    ELSE LET shaders == m.items[cur]
             nextPos == hash_iter_keys(m.items, shaders.value)
             nextItem == IF nextPos = 0 THEN 0 ELSE m.items[nextPos].value
             m2 == IF \/ shaders.key.vertex = shader
                      \/ shaders.key.fragment = shader
                   THEN hash_remove(sd, m, shaders.key)
                   ELSE m
             morekeys == IF nextItem = 0 THEN 0
                         ELSE PositionOf(m2.items, nextItem, 1)
         IN  EvictScan(sd, m2, morekeys, shader)

\* ------------------------------------------------------------------------
\* The precompiled-binary archive.  A file is [exists, entries], entries
\* the ShaderEntry records in file order; slot i of the C arrays is element
\* i + 1 of the sequences here.
\* ------------------------------------------------------------------------
ShaderEntry(hash, offset, size) == [hash |-> hash, offset |-> offset, size |-> size]

\* What malloc returns for a slot nothing was stored in.
UninitEntry == ShaderEntry(<< -1, -1, -1, -1 >>, -1, -1)

\* The probing that starts at hashIndex itself.
RECURSIVE FindUsable_from_home(_, _, _, _)
FindUsable_from_home(usedEntries, hashIndex, probes, n) ==
    IF probes >= n THEN [hashIndex |-> hashIndex, usedEntries |-> usedEntries]
    ELSE IF usedEntries[hashIndex + 1] = 0
    THEN [hashIndex |-> hashIndex,
          usedEntries |-> [usedEntries EXCEPT ![hashIndex + 1] = 1]]
    ELSE FindUsable_from_home(usedEntries, (hashIndex + 1) % n, probes + 1, n)

\* "Find the first usable index": at most n probes from hashIndex + 1.
RECURSIVE FindUsable(_, _, _, _)
FindUsable(usedEntries, hashIndex, probes, n) ==
    IF probes >= n THEN [hashIndex |-> hashIndex, usedEntries |-> usedEntries]
    ELSE LET hi == (hashIndex + 1) % n
         IN  IF usedEntries[hi + 1] = 0
             THEN [hashIndex |-> hi,
                   usedEntries |-> [usedEntries EXCEPT ![hi + 1] = 1]]
             ELSE FindUsable(usedEntries, hi, probes + 1, n)

RECURSIVE StoreHashes(_, _, _, _)
StoreHashes(entries, i, hashes, usedEntries) ==
    IF i > Len(entries) THEN [hashes |-> hashes, usedEntries |-> usedEntries]
    ELSE LET n == Len(entries)
             home == U64Mod(entries[i].hash, n)
             u == FindUsable(usedEntries, home, 0, n)
         IN  StoreHashes(entries, i + 1,
                         [hashes EXCEPT ![u.hashIndex + 1] = entries[i]],
                         u.usedEntries)

\* load_precompiled_blob: ctx->blob after the call (opened: its result).
load_precompiled_blob(file) ==
    IF ~file.exists
    THEN [opened |-> FALSE, numShaders |-> 0, hashes |-> << >>,
          shaders |-> << >>, usedEntries |-> << >>,
          binaries |-> << >>, tables |-> "none"]
    ELSE LET n == Len(file.entries)
             t == StoreHashes(file.entries, 1,
                              [i \in 1..n |-> UninitEntry],
                              [i \in 1..n |-> 0])
         IN  [opened |-> TRUE,
              numShaders |-> n,
              hashes |-> t.hashes,
              shaders |-> [i \in 1..n |->
                             [hash |-> t.hashes[i].hash,
                              binary |-> << t.hashes[i].offset, t.hashes[i].size >>]],
              usedEntries |-> t.usedEntries,
              binaries |-> [i \in 1..n |-> "live"],
              tables |-> "live"]

\* The loop of MOJOSHADER_sdlDestroyContext stopping one binary early:
\* i < numShaders - 1.
FreeBlob_skipping_last(b) ==
    IF b.numShaders > 0
    THEN [b EXCEPT !.binaries = [i \in DOMAIN @ |->
                                    IF i < b.numShaders THEN Freed(@[i])
                                    ELSE @[i]],
                   !.tables = Freed(@)]
    ELSE b

\* MOJOSHADER_sdlDestroyContext on ctx->blob: with numShaders > 0 every
\* shaders[i].binary is freed, then the hashes and shaders arrays.
FreeBlob(b) ==
    IF b.numShaders > 0
    THEN [b EXCEPT !.binaries = [i \in DOMAIN @ |-> Freed(@[i])],
                   !.tables = Freed(@)]
    ELSE b

\* fetch_blob_shader: [found, searchIndex, size, probes], probes the number
\* of slots compared.
RECURSIVE FetchFrom(_, _, _)
FetchFrom(b, hash, probes) ==
    IF probes >= b.numShaders
    THEN [found |-> FALSE, searchIndex |-> -1, size |-> -1, probes |-> probes]
    ELSE LET searchIndex == U64Mod(U64Add(hash, probes), b.numShaders)
         IN  IF b.hashes[searchIndex + 1].hash = hash
             THEN [found |-> TRUE, searchIndex |-> searchIndex,
                   size |-> b.hashes[searchIndex + 1].size,
                   probes |-> probes + 1]
             ELSE FetchFrom(b, hash, probes + 1)

fetch_blob_shader(b, hash) == FetchFrom(b, hash, 0)

\* The stage hashes are not computed yet: both functions return 0.
hash_vertex_shader == U64(0)
hash_pixel_shader == U64(0)

\* ------------------------------------------------------------------------
\* What the collaborators answer during one call: whether each allocation
\* and each host-API creation call succeeds, whether hash_insert succeeds,
\* and whether an invalid memory access (a write through NULL, a read of a
\* freed block) ends the process.
\* ------------------------------------------------------------------------
EnvOk ==
    [cacheAlloc |-> TRUE, progAlloc |-> TRUE, vertexCreate |-> TRUE,
     fragmentCreate |-> TRUE, keyAlloc |-> TRUE, insert |-> TRUE, trap |-> FALSE]

Envs ==
    { EnvOk,
      [EnvOk EXCEPT !.trap = TRUE],
      [EnvOk EXCEPT !.cacheAlloc = FALSE],
      [EnvOk EXCEPT !.progAlloc = FALSE],
      [EnvOk EXCEPT !.vertexCreate = FALSE],
      [EnvOk EXCEPT !.fragmentCreate = FALSE],
      [EnvOk EXCEPT !.insert = FALSE],
      [EnvOk EXCEPT !.keyAlloc = FALSE, !.trap = TRUE],
      [EnvOk EXCEPT !.keyAlloc = FALSE],
      [EnvOk EXCEPT !.keyAlloc = FALSE, !.insert = FALSE] }

NoProgram ==
    [st |-> "unalloc", vertexShader |-> NULL, pixelShader |-> NULL,
     vertexShaderData |-> NULL, pixelShaderData |-> NULL]

\* The result of compile_program / compile_blob_program: the heap after the
\* call, the program returned (NULL on failure), the error message set ("":
\* none), the host-API creation calls made, the record allocated (attempt)
\* and the slots each archive lookup compared.
Compiled(m, program, error, calls, attempt, probes) ==
    [m |-> m, program |-> program, error |-> error, calls |-> calls,
     attempt |-> attempt, probes |-> probes]

\* The two SDL_CreateGPUShader calls and their failure paths, shared by both
\* compile functions.
CreateShaders_keeping_half(m, program, env, probes) ==
    LET mv == [m EXCEPT !.programs[program].vertexShader = VertexHandleOf(program),
                        !.handles[VertexHandleOf(program)] = "live"]
    IN  IF ~env.vertexCreate
        THEN Compiled([m EXCEPT !.programs[program].st = Freed(@)], NULL,
                      "host api error", << "vertex" >>, program, probes)
        ELSE IF ~env.fragmentCreate
        THEN Compiled(mv, program, "host api error",
                      << "vertex", "fragment" >>, program, probes)
        ELSE Compiled([mv EXCEPT !.programs[program].pixelShader = PixelHandleOf(program),
                                 !.handles[PixelHandleOf(program)] = "live"],
                      program, "", << "vertex", "fragment" >>, program, probes)

CreateShaders_leaking_vertex(m, program, env, probes) ==
    LET mv == [m EXCEPT !.programs[program].vertexShader = VertexHandleOf(program),
                        !.handles[VertexHandleOf(program)] = "live"]
    IN  IF ~env.vertexCreate
        THEN Compiled([m EXCEPT !.programs[program].st = Freed(@)], NULL,
                      "host api error", << "vertex" >>, program, probes)
        ELSE IF ~env.fragmentCreate
        THEN Compiled([mv EXCEPT !.programs[program].st = Freed(@)],
                      NULL, "host api error", << "vertex", "fragment" >>,
                      program, probes)
        ELSE Compiled([mv EXCEPT !.programs[program].pixelShader = PixelHandleOf(program),
                                 !.handles[PixelHandleOf(program)] = "live"],
                      program, "", << "vertex", "fragment" >>, program, probes)

CreateShaders(m, program, env, probes) ==
    LET mv == [m EXCEPT !.programs[program].vertexShader = VertexHandleOf(program),
                        !.handles[VertexHandleOf(program)] = "live"]
    IN  IF ~env.vertexCreate
        THEN Compiled([m EXCEPT !.programs[program].st = Freed(@)], NULL,
                      "host api error", << "vertex" >>, program, probes)
        ELSE IF ~env.fragmentCreate
        THEN Compiled([mv EXCEPT !.handles[VertexHandleOf(program)] = Released(@),
                                 !.programs[program].st = Freed(@)],
                      NULL, "host api error", << "vertex", "fragment" >>,
                      program, probes)
        ELSE Compiled([mv EXCEPT !.programs[program].pixelShader = PixelHandleOf(program),
                                 !.handles[PixelHandleOf(program)] = "live"],
                      program, "", << "vertex", "fragment" >>, program, probes)

\* malloc of a program record: a block never used before, or a freed block
\* that nothing refers to any more (its handles released, its key freed; no
\* cache item, bound-program field or earlier link result names it).  Such a
\* block is indistinguishable from a new one, so its instance number is used
\* again.
Unreferenced(m, p) ==
    /\ m.programs[p].st = "freed"
    /\ m.handles[VertexHandleOf(p)] \in {"none", "released"}
    /\ m.handles[PixelHandleOf(p)] \in {"none", "released"}
    /\ m.keys[p] \in {"unalloc", "freed"}
    /\ m.bound_program # p
    /\ p \notin m.held
    /\ \A i \in 1..Len(m.items) : m.items[i].value # p /\ m.items[i].item # p

RECURSIVE FirstFree(_, _)
FirstFree(m, p) ==
    IF p > MaxPrograms THEN NULL
    ELSE IF m.programs[p].st = "unalloc" \/ Unreferenced(m, p) THEN p
    ELSE FirstFree(m, p + 1)

MallocProgram(m, program) ==
    [m EXCEPT !.programs[program] = [NoProgram EXCEPT !.st = "live"],
              !.handles[VertexHandleOf(program)] = "none",
              !.handles[PixelHandleOf(program)] = "none",
              !.keys[program] = "unalloc"]

compile_program(m, env) ==
    LET program == IF env.progAlloc THEN FirstFree(m, 1) ELSE NULL
    IN  IF program = NULL
        THEN Compiled(m, NULL, "out of memory", << >>, NULL, << >>)
        ELSE CreateShaders(MallocProgram(m, program), program, env, << >>)

compile_blob_program_ignoring_miss(m, env, b) ==
    LET program == IF env.progAlloc THEN FirstFree(m, 1) ELSE NULL
        vblob == fetch_blob_shader(b, hash_vertex_shader)
        pblob == fetch_blob_shader(b, hash_pixel_shader)
    IN  IF program = NULL
        THEN Compiled(m, NULL, "out of memory", << >>, NULL, << >>)
        ELSE CreateShaders(MallocProgram(m, program), program, env,
                           << vblob.probes, pblob.probes >>)

compile_blob_program(m, env, b) ==
    LET program == IF env.progAlloc THEN FirstFree(m, 1) ELSE NULL
        vblob == fetch_blob_shader(b, hash_vertex_shader)
        pblob == fetch_blob_shader(b, hash_pixel_shader)
        m1 == MallocProgram(m, program)
    IN  IF program = NULL
        THEN Compiled(m, NULL, "out of memory", << >>, NULL, << >>)
        ELSE IF ~vblob.found \/ ~pblob.found
        THEN Compiled([m1 EXCEPT !.programs[program].st = Freed(@)], NULL,
                      "MojoShaderPrecompiled.bin is incomplete!!!", << >>,
                      program, << vblob.probes, pblob.probes >>)
        ELSE CreateShaders(m1, program, env, << vblob.probes, pblob.probes >>)

\* ------------------------------------------------------------------------
\* MOJOSHADER_sdlLinkProgram
\* ------------------------------------------------------------------------
Heap == [items |-> linker_cache.items, programs |-> programs,
         handles |-> handles, keys |-> keys, bound_program |-> bound_program,
         held |-> {r.p : r \in linked}]

\* hash_insert into a table that holds one item per key: [rc, items].
hash_insert(sd, items, key, value, item, ok) ==
    IF hash_find(sd, items, key) # 0 THEN [rc |-> 0, items |-> items]
    ELSE IF ~ok THEN [rc |-> -1, items |-> items]
    ELSE [rc |-> 1,
          items |-> Append(items, [key |-> key, value |-> value, item |-> item,
                                   bucket |-> calc_hash(sd, key)])]

\* The outcome of a call: the context's fields after it and what it
\* returned.  `created` is ctx->linker_cache != NULL.
Outcome(state, created, m, error, ret, calls, attempt, probes) ==
    [ctxState |-> state, created |-> created, m |-> m, error |-> error,
     ret |-> ret, calls |-> calls, attempt |-> attempt, probes |-> probes]

\* From "LinkedShaderData *item = malloc(...)" to the end of the function.
InsertProgram(m, sd, shaders, program, env, calls, probes) ==
    LET item == IF env.keyAlloc THEN program ELSE NULL
        \* if (item == NULL) MOJOSHADER_sdlDeleteProgram(ctx, program);
        m1 == IF item = NULL THEN MOJOSHADER_sdlDeleteProgram(m, program)
              ELSE [m EXCEPT !.keys[item] = "live"]
        \* memcpy(item, &shaders, ...): with item NULL the bytes land at
        \* address 0, where every key stored through NULL lives.
        m2 == IF item # NULL THEN m1
              ELSE [m1 EXCEPT !.items =
                       [i \in 1..Len(m1.items) |->
                           IF m1.items[i].item = NULL
                           THEN [m1.items[i] EXCEPT !.key = shaders]
                           ELSE m1.items[i]]]
        r == hash_insert(sd, m2.items, shaders, program, item, env.insert)
        m3 == [m2 EXCEPT !.items = r.items]
        \* ctx->free_fn(item, ...): free(NULL) does nothing.
        m4 == IF item = NULL THEN m3 ELSE [m3 EXCEPT !.keys[item] = Freed(@)]
    IN  IF item = NULL /\ env.trap
        THEN Outcome("crashed", TRUE, m1, "", NULL, calls, program, probes)
        ELSE IF r.rc # 1
        THEN Outcome("alive", TRUE, MOJOSHADER_sdlDeleteProgram(m4, program),
                     "out of memory", NULL, calls, program, probes)
        ELSE Outcome("alive", TRUE, [m3 EXCEPT !.bound_program = program],
                     "", program, calls, program, probes)

\* MOJOSHADER_sdlLinkProgram once both bound slots are known to be non-NULL.
LinkBound(sd, b, created, m, vshader, pshader, va, env) ==
    LET shaders == MakeLinkedShaderData(vshader, pshader, va)
        dangling == sd[vshader].st # "live" \/ sd[pshader].st # "live"
        found == hash_find(sd, m.items, shaders)
        c == IF b.numShaders > 0 THEN compile_blob_program(m, env, b)
             ELSE compile_program(m, env)
        mp == [c.m EXCEPT !.programs[c.program].vertexShaderData = vshader,
                          !.programs[c.program].pixelShaderData = pshader]
    IN  IF ~created /\ ~env.cacheAlloc
        THEN Outcome("alive", FALSE, m, "out of memory", NULL, << >>, NULL, << >>)
        ELSE IF (dangling \/ Len(va) > MaxAttribs) /\ env.trap
        THEN Outcome("crashed", TRUE, m, "", NULL, << >>, NULL, << >>)
        ELSE IF found # 0
        THEN Outcome("alive", TRUE,
                     [m EXCEPT !.bound_program = m.items[found].value], "",
                     m.items[found].value, << >>, NULL, << >>)
        ELSE IF c.program = NULL
        THEN Outcome("alive", TRUE, c.m, c.error, NULL, c.calls, c.attempt,
                     c.probes)
        ELSE InsertProgram(mp, sd, shaders, c.program, env, c.calls, c.probes)

MOJOSHADER_sdlLinkProgram_late_check(sd, b, created, m, vshader, pshader, va, env) ==
    IF vshader = NULL \/ pshader = NULL
    THEN IF ~created /\ ~env.cacheAlloc
         THEN Outcome("alive", FALSE, m, "out of memory", NULL, << >>, NULL, << >>)
         ELSE Outcome("alive", TRUE, m, "", NULL, << >>, NULL, << >>)
    ELSE LinkBound(sd, b, created, m, vshader, pshader, va, env)

MOJOSHADER_sdlLinkProgram(sd, b, created, m, vshader, pshader, va, env) ==
    IF vshader = NULL \/ pshader = NULL
    THEN Outcome("alive", created, m, "", NULL, << >>, NULL, << >>)
    ELSE LinkBound(sd, b, created, m, vshader, pshader, va, env)

\* ------------------------------------------------------------------------
\* Uniform metadata, register files and the marshaller.  Memory is held in
\* 32-bit words: word w of a buffer is its bytes 4 * (w - 1) .. 4 * w - 1.
\* A float or integer register is four words, a boolean register one byte.
\* ------------------------------------------------------------------------
Uniform(type, index, array_count) ==
    [type |-> type, index |-> index, array_count |-> array_count]

NoUniforms == << >>

\* The uniform lists of the shaders the application compiles.
UniformLists ==
    { NoUniforms,
      << Uniform("float", 0, 0), Uniform("bool", 4, 2) >>,
      << Uniform("bool", 1, 0), Uniform("int", 2, 2), Uniform("float", 3, 1) >> }

SDL_max(a, b) == IF a > b THEN a ELSE b

\* MOJOSHADER_sdlCompileShader: uniformBufferSize += SDL_max(array_count, 1)
\* over the uniforms, then *= 16.
RECURSIVE CountElements(_, _)
CountElements(uniforms, i) ==
    IF i > Len(uniforms) THEN 0
    ELSE SDL_max(uniforms[i].array_count, 1) + CountElements(uniforms, i + 1)

UniformBufferSizeOf(uniforms) == CountElements(uniforms, 1) * UniformStride

\* A value no write has set: the content of newly allocated memory.
Uninit == -1

\* The register files after the memset of MOJOSHADER_sdlCreateContext.
ZeroRegisters ==
    LET vec == [r \in 0..MaxRegister |-> [c \in 0..3 |-> 0]]
        bytes == [r \in 0..MaxRegister |-> 0]
    IN  [vs_reg_file_f |-> vec, vs_reg_file_i |-> vec, vs_reg_file_b |-> bytes,
         ps_reg_file_f |-> vec, ps_reg_file_i |-> vec, ps_reg_file_b |-> bytes]

\* What the application writes through the mapped pointers: every word of
\* every file gets a value of its own, the boolean registers alternate.
RegisterContents(k) ==
    LET vec(base) == [r \in 0..MaxRegister |->
                         [c \in 0..3 |-> 1000 * k + base + 4 * r + c]]
        bytes(b) == [r \in 0..MaxRegister |-> (r + b + k) % 2]
    IN  [vs_reg_file_f |-> vec(100), vs_reg_file_i |-> vec(200),
         vs_reg_file_b |-> bytes(0),
         ps_reg_file_f |-> vec(300), ps_reg_file_i |-> vec(400),
         ps_reg_file_b |-> bytes(1)]

NoStaging == [st |-> "null", length |-> 0, words |-> << >>]

\* memcpy(ctx->uniform_staging + offset, &reg[4 * index], size * 16)
CopyRegisters(words, offset, reg, index, size) ==
    LET first == offset \div WordBytes
    IN  [w \in DOMAIN words |->
            IF w - 1 >= first /\ w - 1 < first + 4 * size
            THEN reg[index + ((w - 1 - first) \div 4)][(w - 1 - first) % 4]
            ELSE words[w]]

\* The boolean expansion with a stride of one word: contentsI[j].
ExpandBooleans_packed(words, offset, regB, index, size) ==
    LET first == offset \div WordBytes
    IN  [w \in DOMAIN words |->
            IF w - 1 >= first /\ w - 1 - first < size
            THEN regB[index + (w - 1 - first)]
            ELSE words[w]]

\* contentsI = (uint32_t *) (staging + offset);
\* contentsI[j * 4] = regB[index + j] for j < size
ExpandBooleans(words, offset, regB, index, size) ==
    LET first == offset \div WordBytes
    IN  [w \in DOMAIN words |->
            IF /\ w - 1 >= first
               /\ (w - 1 - first) % 4 = 0
               /\ (w - 1 - first) \div 4 < size
            THEN regB[index + ((w - 1 - first) \div 4)]
            ELSE words[w]]

\* The loop of update_uniform_buffer from uniform i on.
RECURSIVE MarshalFrom(_, _, _, _, _, _, _)
MarshalFrom(words, uniforms, i, offset, regF, regI, regB) ==
    IF i > Len(uniforms) THEN words
    ELSE LET index == uniforms[i].index
             arrayCount == uniforms[i].array_count
             size == IF arrayCount # 0 THEN arrayCount ELSE 1
             written ==
                 CASE uniforms[i].type = "float" ->
                          CopyRegisters(words, offset, regF, index, size)
                   [] uniforms[i].type = "int" ->
                          CopyRegisters(words, offset, regI, index, size)
                   [] uniforms[i].type = "bool" ->
                          ExpandBooleans(words, offset, regB, index, size)
         IN  MarshalFrom(written, uniforms, i + 1, offset + size * UniformStride,
                         regF, regI, regB)

\* The value of `offset` when the loop of update_uniform_buffer ends.
RECURSIVE FinalOffset(_, _, _)
FinalOffset(uniforms, i, offset) ==
    IF i > Len(uniforms) THEN offset
    ELSE LET arrayCount == uniforms[i].array_count
             size == IF arrayCount # 0 THEN arrayCount ELSE 1
         IN  FinalOffset(uniforms, i + 1, offset + size * UniformStride)

\* update_uniform_buffer: the staging buffer after the call.  A staging
\* buffer that is too short is freed and allocated again, uninitialized;
\* when that allocation fails (allocOk false) the pointer is NULL and the
\* writes go to address 0.
update_uniform_buffer(staging, shader, regF, regI, regB, allocOk) ==
    LET grown ==
            IF shader.uniformBufferSize > staging.length
            THEN [st |-> IF allocOk THEN "live" ELSE "null",
                  length |-> shader.uniformBufferSize,
                  words |-> [w \in 1..(shader.uniformBufferSize \div WordBytes)
                                |-> Uninit]]
            ELSE staging
    IN  [grown EXCEPT !.words =
            MarshalFrom(grown.words, shader.uniforms, 1, 0, regF, regI, regB)]

\* MOJOSHADER_sdlGetUniformBufferSize
MOJOSHADER_sdlGetUniformBufferSize(sd, shader) ==
    IF shader = NULL THEN 0 ELSE sd[shader].uniformBufferSize

\* SDL_PushGPUVertexUniformData / SDL_PushGPUFragmentUniformData(cb, 0,
\* ctx->uniform_staging, length): the host API copies `length` bytes.
PushUniformData(stage, staging, length) ==
    [stage |-> stage, ptr |-> staging.st, length |-> length,
     data |-> SubSeq(staging.words, 1, length \div WordBytes)]

\* One stage of MOJOSHADER_sdlUpdateUniformBuffers: u is [staging, pushes,
\* trapped].  A write through a NULL staging pointer may end the process.
UpdateStage(u, sd, shader, stage, regF, regI, regB, env) ==
    LET staging == update_uniform_buffer(u.staging, sd[shader], regF, regI,
                                         regB, env.stagingAlloc)
    IN  IF u.trapped \/ MOJOSHADER_sdlGetUniformBufferSize(sd, shader) <= 0
        THEN u
        ELSE IF staging.st = "null" /\ env.trap
        THEN [u EXCEPT !.trapped = TRUE]
        ELSE [u EXCEPT !.staging = staging,
                       !.pushes = Append(@, PushUniformData(stage, staging,
                                             sd[shader].uniformBufferSize))]

\* Both stages marshalled first, both pushes issued afterwards.
MOJOSHADER_sdlUpdateUniformBuffers_pushing_late(staging, sd, program, regs, env) ==
    LET u0 == [staging |-> staging, pushes |-> << >>, trapped |-> FALSE]
        u1 == UpdateStage(u0, sd, program.vertexShaderData, "vertex",
                          regs.vs_reg_file_f, regs.vs_reg_file_i,
                          regs.vs_reg_file_b, env)
        u2 == UpdateStage(u1, sd, program.pixelShaderData, "fragment",
                          regs.ps_reg_file_f, regs.ps_reg_file_i,
                          regs.ps_reg_file_b, env)
    IN  [u2 EXCEPT !.pushes =
            [n \in DOMAIN u2.pushes |->
                [u2.pushes[n] EXCEPT !.data =
                    SubSeq(u2.staging.words, 1, u2.pushes[n].length \div WordBytes)]]]

MOJOSHADER_sdlUpdateUniformBuffers(staging, sd, program, regs, env) ==
    LET u0 == [staging |-> staging, pushes |-> << >>, trapped |-> FALSE]
        u1 == UpdateStage(u0, sd, program.vertexShaderData, "vertex",
                          regs.vs_reg_file_f, regs.vs_reg_file_i,
                          regs.vs_reg_file_b, env)
    IN  UpdateStage(u1, sd, program.pixelShaderData, "fragment",
                    regs.ps_reg_file_f, regs.ps_reg_file_i,
                    regs.ps_reg_file_b, env)

\* What malloc and the write through a NULL staging pointer do in one call.
UpdateEnvs ==
    { [stagingAlloc |-> TRUE, trap |-> FALSE],
      [stagingAlloc |-> FALSE, trap |-> FALSE],
      [stagingAlloc |-> FALSE, trap |-> TRUE] }

\* ------------------------------------------------------------------------
\* The SPIR-V patcher of compile_program.  A vertex shader's output is its
\* IR as 32-bit words (word 0 first) followed by the SpirvPatchTable, which
\* names the type ids and, for each (usage, usageIndex), the word offset of
\* the attribute's type declaration and of each load's type and opcode.
\* ------------------------------------------------------------------------
\* No vertex shader output is under the patcher.
NoOutput == [words |-> << >>, table |-> << >>]

NoLoads == [num_loads |-> 0, load_types |-> << >>, load_opcodes |-> << >>]

Loads(types, opcodes) ==
    [num_loads |-> Len(types), load_types |-> types, load_opcodes |-> opcodes]

TypeIds ==
    [tid_vec4_p |-> 21, tid_ivec4_p |-> 22, tid_uvec4_p |-> 23,
     tid_vec4 |-> 24, tid_ivec4 |-> 25, tid_uvec4 |-> 26]

\* The usages and usage indexes of the modelled tables.
PatchUsages == 0..1
PatchUsageIndexes == 0..1

\* A vertex shader's IR before any patch: every attribute a float vector,
\* every load's opcode word `count` in its high and `opcode` in its low 16
\* bits.  It declares attributes (0, 0), loaded twice, (1, 0), loaded once,
\* and (0, 1), never loaded; an attribute the shader does not declare,
\* (1, 1), has offset 0 and no loads.
EmittedWord(decls, types, opcodes, count, opcode, w) ==
    IF w \in decls THEN TypeIds.tid_vec4_p
    ELSE IF w \in types THEN TypeIds.tid_vec4
    ELSE IF w \in opcodes THEN count * OpcodeModulus + opcode
    ELSE 1000 + w

\* The high and low halves of the opcode words given to the patcher: a
\* 4-word copy, and a word with every bit below the sign set.
OpcodeWords ==
    { [count |-> 4, opcode |-> SpvOpCopyObject],
      [count |-> (OpcodeModulus \div 2) - 1, opcode |-> OpcodeModulus - 1] }

VertexOutputs ==
    { [words |-> [w \in 0..13 |->
                     EmittedWord({2, 3, 5}, {7, 10, 13}, {6, 9, 12},
                                 o.count, o.opcode, w)],
       table |-> TypeIds @@
           [attrib_type_offsets |->
                [u \in PatchUsages |-> [i \in PatchUsageIndexes |->
                    IF u = 0 /\ i = 0 THEN 3
                    ELSE IF u = 1 /\ i = 0 THEN 5
                    ELSE IF u = 0 /\ i = 1 THEN 2 ELSE 0]],
            attrib_type_load_offsets |->
                [u \in PatchUsages |-> [i \in PatchUsageIndexes |->
                    IF u = 0 /\ i = 0 THEN Loads(<< 7, 10 >>, << 6, 9 >>)
                    ELSE IF u = 1 /\ i = 0 THEN Loads(<< 13 >>, << 12 >>)
                    ELSE NoLoads]]]] : o \in OpcodeWords }

\* The element formats of the layouts given to the patcher: the three
\* integer formats 5, 6, 7 and their neighbours.
PatchFormats == { 4, 5, 6, 7, 8 }

PatchAttrs ==
    { Attr(u, i, f) : u \in PatchUsages, i \in PatchUsageIndexes,
                      f \in PatchFormats }

\* The empty layout, every layout of one attribute, and the layouts of a
\* loaded attribute followed by any attribute of an integer format (the
\* same attribute twice included).
PatchLayouts ==
    { << >> } \cup { << a >> : a \in PatchAttrs }
              \cup { << a, b >> :
                         a \in { x \in PatchAttrs : x.usageIndex = 0 },
                         b \in { x \in PatchAttrs :
                                    x.vertexElementFormat \in 5..7 } }

\* The selection with format 6 taken for unsigned.
SelectTypes_short2_unsigned(vTable, vertexElementFormat) ==
    IF vertexElementFormat >= 5 /\ vertexElementFormat <= 7
    THEN IF vertexElementFormat <= 6
         THEN [typeDecl |-> vTable.tid_uvec4_p, typeLoad |-> vTable.tid_uvec4,
               opcodeLoad |-> SpvOpConvertUToF]
         ELSE [typeDecl |-> vTable.tid_ivec4_p, typeLoad |-> vTable.tid_ivec4,
               opcodeLoad |-> SpvOpConvertSToF]
    ELSE [typeDecl |-> vTable.tid_vec4_p, typeLoad |-> vTable.tid_vec4,
          opcodeLoad |-> SpvOpCopyObject]

\* typeDecl, typeLoad and opcodeLoad of one element.
SelectTypes(vTable, vertexElementFormat) ==
    IF vertexElementFormat >= 5 /\ vertexElementFormat <= 7
    THEN IF vertexElementFormat = 5
         THEN [typeDecl |-> vTable.tid_uvec4_p, typeLoad |-> vTable.tid_uvec4,
               opcodeLoad |-> SpvOpConvertUToF]
         ELSE [typeDecl |-> vTable.tid_ivec4_p, typeLoad |-> vTable.tid_ivec4,
               opcodeLoad |-> SpvOpConvertSToF]
    ELSE [typeDecl |-> vTable.tid_vec4_p, typeLoad |-> vTable.tid_vec4,
          opcodeLoad |-> SpvOpCopyObject]

\* The inner loop storing the opcode alone: *op = opcodeLoad.
RECURSIVE PatchLoads_whole_word(_, _, _, _)
PatchLoads_whole_word(words, loads, j, sel) ==
    IF j > loads.num_loads THEN words
    ELSE LET typed == [words EXCEPT ![loads.load_types[j]] = sel.typeLoad]
         IN  PatchLoads_whole_word(
                 [typed EXCEPT ![loads.load_opcodes[j]] = sel.opcodeLoad],
                 loads, j + 1, sel)

\* The inner loop from load j on: output[load_types[j]] = typeLoad, then
\* *op = (*op & 0xFFFF0000) | opcodeLoad.
RECURSIVE PatchLoads(_, _, _, _)
PatchLoads(words, loads, j, sel) ==
    IF j > loads.num_loads THEN words
    ELSE LET typed == [words EXCEPT ![loads.load_types[j]] = sel.typeLoad]
             op == typed[loads.load_opcodes[j]]
         IN  PatchLoads(
                 [typed EXCEPT ![loads.load_opcodes[j]] =
                     (op - (op % OpcodeModulus)) + sel.opcodeLoad],
                 loads, j + 1, sel)

\* One iteration of the outer loop.
PatchElement(words, vTable, element) ==
    LET sel == SelectTypes(vTable, element.vertexElementFormat)
        typeDeclOffset ==
            vTable.attrib_type_offsets[element.usage][element.usageIndex]
    IN  PatchLoads([words EXCEPT ![typeDeclOffset] = sel.typeDecl],
                   vTable.attrib_type_load_offsets[element.usage]
                                                  [element.usageIndex],
                   1, sel)

\* The outer loop from element i on: the words after each iteration.
RECURSIVE PatchFrom(_, _, _, _)
PatchFrom(words, vTable, va, i) ==
    IF i > Len(va) THEN << >>
    ELSE LET patched == PatchElement(words, vTable, va[i])
         IN  << patched >> \o PatchFrom(patched, vTable, va, i + 1)

\* The shader whose parseData->output the variable `output` holds.
TrackedShader == 1

\* The iterations of the patcher in a link call that patches on a cache hit
\* as well.
PatchedByLink_on_hit(out, vshader, b, o, va) ==
    IF /\ out # NoOutput
       /\ vshader = TrackedShader
       /\ ~(b.numShaders > 0)
       /\ o.attempt # NULL \/ o.ret # NULL
    THEN PatchFrom(out.words, out.table, va, 1)
    ELSE << >>

\* The iterations of the patcher in one link call with outcome o: link
\* reaches the patcher when it misses, the archive holds no shader and
\* compile_program has allocated the program record.
PatchedByLink(out, vshader, b, o, va) ==
    IF /\ out # NoOutput
       /\ vshader = TrackedShader
       /\ ~(b.numShaders > 0)
       /\ o.attempt # NULL
    THEN PatchFrom(out.words, out.table, va, 1)
    ELSE << >>

\* ------------------------------------------------------------------------
\* Initial state: MOJOSHADER_sdlCreateContext has returned.
\* ------------------------------------------------------------------------
NoShader ==
    [st |-> "unalloc", tag |-> 0, refcount |-> 0, uniforms |-> NoUniforms,
     uniformBufferSize |-> 0]

NoFetch == [hash |-> << >>, found |-> FALSE, searchIndex |-> -1, size |-> -1,
            probes |-> 0]

\* `last`: the layout the most recent link call was given, what it returned,
\* the message it passed to set_error ("": set_error was not called), the
\* host-API creation calls it made, the program record it allocated and the
\* slots its archive lookups compared; what a compile call returned and its
\* message; the program a delete(program) call was given; the host-API
\* uniform pushes of a push-uniforms call; the IR after each iteration of the
\* patcher's loop; or one archive lookup's result.  This is its value after any other call.
NoLast ==
    [op |-> "none", va |-> << >>, ret |-> NULL, error |-> "", calls |-> << >>,
     attempt |-> NULL, probes |-> << >>, program |-> NULL, pushes |-> << >>,
     patched |-> << >>, fetch |-> NoFetch]

\* MojoShaderPrecompiled.bin: absent, or a header count and that many
\* entries.  Entry i's binary is at offset 100 * i and is i bytes long.
NoFile == [exists |-> FALSE, entries |-> << >>]
FileOf(hashes) ==
    [exists |-> TRUE,
     entries |-> [i \in 1..Len(hashes) |-> ShaderEntry(hashes[i], 100 * i, i)]]

MOJOSHADER_sdlCreateContext(file) ==
    /\ ctxState = "alive"
    /\ shaderData = [s \in ShaderIds |-> NoShader]
    /\ bound_vshader_data = NULL
    /\ bound_pshader_data = NULL
    /\ bound_program = NULL
    /\ linker_cache = [created |-> FALSE, items |-> << >>]
    /\ programs = [p \in ProgramIds |-> NoProgram]
    /\ handles = [h \in HandleIds |-> "none"]
    /\ keys = [k \in ProgramIds |-> "unalloc"]
    /\ blob = [load_precompiled_blob(file) EXCEPT
                  !.usedEntries = << >>] @@
              [file |-> file,
               profile |-> IF load_precompiled_blob(file).opened
                           THEN "bytecode" ELSE "spirv"]
    /\ reg_file = ZeroRegisters
    /\ uniform_staging = NoStaging
    /\ error_buffer = ""
    /\ last = NoLast
    /\ linked = {}
    /\ refHistory = [s \in ShaderIds |-> [addrefs |-> 0, deletes |-> 0]]

\* ------------------------------------------------------------------------
\* The public calls
\* ------------------------------------------------------------------------
LiveShaders == {s \in ShaderIds : shaderData[s].st = "live"}

MOJOSHADER_sdlCompileShader(res, uniforms) ==
    LET shader == FirstUnused(shaderData, 1, MaxShaders)
    IN  /\ ctxState = "alive"
        /\ IF res = "ok"
           THEN /\ shader # NULL
                /\ shaderData' = [shaderData EXCEPT ![shader] =
                       [st |-> "live", tag |-> shaderTagCounter, refcount |-> 1,
                        uniforms |-> uniforms,
                        uniformBufferSize |-> UniformBufferSizeOf(uniforms)]]
                /\ shaderTagCounter' = (shaderTagCounter + 1) % TagModulus
                /\ maxTag' = IF shaderTagCounter > maxTag
                              THEN shaderTagCounter ELSE maxTag
                /\ error_buffer' = error_buffer
           ELSE /\ UNCHANGED << shaderData, shaderTagCounter, maxTag >>
                /\ error_buffer' = res
        /\ last' = [NoLast EXCEPT !.op = "compile",
                                  !.ret = IF res = "ok" THEN shader ELSE NULL,
                                  !.error = IF res = "ok" THEN "" ELSE res]
        /\ UNCHANGED << ctxState, bound_vshader_data, bound_pshader_data,
                        bound_program, linker_cache, programs, handles, keys,
                        blob, linked, refHistory,
                        reg_file, uniform_staging, output >>

MOJOSHADER_sdlShaderAddRef(shader) ==
    /\ ctxState = "alive"
    /\ shader \in LiveShaders
    /\ refHistory[shader].addrefs < MaxAddRefs
    /\ shaderData' = [shaderData EXCEPT ![shader].refcount = @ + 1]
    /\ refHistory' = [refHistory EXCEPT ![shader].addrefs = @ + 1]
    /\ last' = NoLast
    /\ UNCHANGED << ctxState, shaderTagCounter, bound_vshader_data,
                    bound_pshader_data, bound_program, linker_cache, programs,
                    handles, keys, blob, error_buffer, linked, maxTag,
                    reg_file, uniform_staging, output >>

MOJOSHADER_sdlBindShaders(vshader, pshader) ==
    /\ ctxState = "alive"
    /\ vshader \in LiveShaders \cup {NULL}
    /\ pshader \in LiveShaders \cup {NULL}
    /\ bound_vshader_data' = vshader
    /\ bound_pshader_data' = pshader
    /\ last' = NoLast
    /\ UNCHANGED << ctxState, shaderData, shaderTagCounter, bound_program,
                    linker_cache, programs, handles, keys, blob, error_buffer,
                    linked, refHistory, maxTag,
                    reg_file, uniform_staging, output >>

\* if (shader->refcount > 1) shader->refcount--; else destroy
StillReferenced_never(refcount) == refcount > 0

StillReferenced(refcount) == refcount > 1

MOJOSHADER_sdlDeleteShader(shader) ==
    /\ ctxState = "alive"
    /\ shader \in LiveShaders
    /\ \E m \in {IF /\ linker_cache.created
                    /\ ~StillReferenced(shaderData[shader].refcount)
                  THEN EvictScan(shaderData, Heap,
                                 hash_iter_keys(linker_cache.items, 0), shader)
                  ELSE Heap} :
        /\ refHistory' = [refHistory EXCEPT ![shader].deletes = @ + 1]
        /\ IF StillReferenced(shaderData[shader].refcount)
           THEN /\ shaderData' = [shaderData EXCEPT ![shader].refcount = @ - 1]
                /\ UNCHANGED << linker_cache, programs, handles, keys,
                                bound_program, linked >>
           ELSE /\ linker_cache' = [linker_cache EXCEPT !.items = m.items]
                /\ programs' = m.programs
                /\ handles' = m.handles
                /\ keys' = m.keys
                /\ bound_program' = m.bound_program
                /\ shaderData' = [shaderData EXCEPT ![shader].st = "freed"]
                /\ linked' = {r \in linked : r.v # shader /\ r.f # shader}
        /\ last' = NoLast
        /\ UNCHANGED << ctxState, shaderTagCounter, bound_vshader_data,
                        bound_pshader_data, blob, error_buffer, maxTag,
                        reg_file, uniform_staging, output >>

\* MOJOSHADER_sdlLinkProgram on the bound shaders.  `linked` remembers, for
\* each pair of live shaders and each layout, the live program the most
\* recent successful link of them returned.
LinkProgram(va, env) ==
    \E o \in {MOJOSHADER_sdlLinkProgram(shaderData, blob, linker_cache.created,
                                       Heap, bound_vshader_data,
                                       bound_pshader_data, va, env)} :
    LET before == {r \in linked : /\ r.v = bound_vshader_data
                                  /\ r.f = bound_pshader_data
                                  /\ r.va = va}
        success == /\ o.ret # NULL
                   /\ o.m.programs[o.ret].st = "live"
                   /\ bound_vshader_data \in LiveShaders
                   /\ bound_pshader_data \in LiveShaders
        patched == PatchedByLink(output, bound_vshader_data, blob, o, va)
    IN  /\ ctxState = "alive"
        /\ ctxState' = o.ctxState
        /\ linker_cache' = [created |-> o.created, items |-> o.m.items]
        /\ programs' = o.m.programs
        /\ handles' = o.m.handles
        /\ keys' = o.m.keys
        /\ bound_program' = o.m.bound_program
        /\ error_buffer' = IF o.error = "" THEN error_buffer ELSE o.error
        /\ linked' = IF ~success THEN linked
                     ELSE (linked \ before) \cup
                          {[v |-> bound_vshader_data, f |-> bound_pshader_data,
                            va |-> va, p |-> o.ret]}
        /\ last' = [NoLast EXCEPT !.op = "link", !.va = va, !.ret = o.ret,
                                  !.error = o.error,
                                  !.calls = o.calls, !.attempt = o.attempt,
                                  !.probes = o.probes, !.patched = patched]
        /\ output' = IF patched = << >> THEN output
                     ELSE [output EXCEPT !.words = patched[Len(patched)]]
        /\ UNCHANGED << shaderData, shaderTagCounter, bound_vshader_data,
                        bound_pshader_data, blob, refHistory, maxTag,
                        reg_file, uniform_staging >>

MOJOSHADER_sdlDestroyContext ==
    \E m \in {IF linker_cache.created THEN hash_destroy(Heap) ELSE Heap} :
        /\ ctxState = "alive"
        /\ ctxState' = "destroyed"
        /\ linker_cache' = [linker_cache EXCEPT !.items = m.items]
        /\ programs' = m.programs
        /\ handles' = m.handles
        /\ keys' = m.keys
        /\ bound_program' = m.bound_program
        /\ uniform_staging' = [uniform_staging EXCEPT
                                  !.st = IF @ = "live" THEN "freed" ELSE @]
        /\ blob' = FreeBlob(blob)
        /\ linked' = {}
        /\ last' = NoLast
        /\ UNCHANGED << shaderData, shaderTagCounter, bound_vshader_data,
                        bound_pshader_data, error_buffer, refHistory, maxTag,
                        reg_file, output >>

\* MOJOSHADER_sdlDeleteProgram called by the application on a program it
\* holds.  The cache is not told.
DeleteProgram(p) ==
    \E m \in {MOJOSHADER_sdlDeleteProgram(Heap, p)} :
        /\ ctxState = "alive"
        /\ programs[p].st = "live"
        /\ programs' = m.programs
        /\ handles' = m.handles
        /\ bound_program' = m.bound_program
        /\ linked' = {r \in linked : r.p # p}
        /\ last' = [NoLast EXCEPT !.op = "deleteProgram", !.program = p]
        /\ UNCHANGED << ctxState, shaderData, shaderTagCounter,
                        bound_vshader_data, bound_pshader_data, linker_cache,
                        keys, blob, error_buffer, refHistory, maxTag,
                        reg_file, uniform_staging, output >>

\* The application writes the register files through the pointers
\* MOJOSHADER_sdlMapUniformBufferMemory gave it.
MOJOSHADER_sdlMapUniformBufferMemory(contents) ==
    /\ ctxState = "alive"
    /\ reg_file' = contents
    /\ last' = NoLast
    /\ UNCHANGED << ctxState, shaderData, shaderTagCounter, bound_vshader_data,
                    bound_pshader_data, bound_program, linker_cache, programs,
                    handles, keys, blob, error_buffer, linked, refHistory,
                    maxTag, uniform_staging, output >>

\* MOJOSHADER_sdlUpdateUniformBuffers, called with a program bound.
UpdateUniformBuffers(env) ==
    /\ ctxState = "alive"
    /\ bound_program # NULL
    /\ programs[bound_program].st = "live"
    /\ programs[bound_program].vertexShaderData \in LiveShaders
    /\ programs[bound_program].pixelShaderData \in LiveShaders
    /\ \E u \in {MOJOSHADER_sdlUpdateUniformBuffers(
                      uniform_staging, shaderData, programs[bound_program],
                      reg_file, env)} :
          /\ ctxState' = IF u.trapped THEN "crashed" ELSE "alive"
          /\ uniform_staging' = u.staging
          /\ last' = [NoLast EXCEPT !.op = "update", !.pushes = u.pushes]
    /\ UNCHANGED << shaderData, shaderTagCounter, bound_vshader_data,
                    bound_pshader_data, bound_program, linker_cache, programs,
                    handles, keys, blob, error_buffer, linked, refHistory,
                    maxTag, reg_file, output >>

\* The SPIR-V branch of compile_program patches the vertex shader's IR in
\* place for the layout of one link.
PatchVertexAttributes(va) ==
    /\ ctxState = "alive"
    /\ output # NoOutput
    /\ \E patched \in {PatchFrom(output.words, output.table, va, 1)} :
          /\ output' = [output EXCEPT
                           !.words = IF Len(va) = 0 THEN @
                                     ELSE patched[Len(va)]]
          /\ last' = [NoLast EXCEPT !.op = "patch", !.va = va,
                                    !.patched = patched]
    /\ UNCHANGED << ctxState, shaderData, shaderTagCounter, bound_vshader_data,
                    bound_pshader_data, bound_program, linker_cache, programs,
                    handles, keys, blob, error_buffer, linked, refHistory,
                    maxTag, reg_file, uniform_staging >>

\* One archive lookup, as compile_blob_program makes it.
FetchBlobShader(hash) ==
    /\ ctxState = "alive"
    /\ blob.numShaders > 0
    /\ last' = [NoLast EXCEPT !.op = "fetch",
                              !.fetch = [hash |-> hash] @@
                                        fetch_blob_shader(blob, hash)]
    /\ error_buffer' = IF fetch_blob_shader(blob, hash).found THEN error_buffer
                       ELSE "MojoShaderPrecompiled.bin is incomplete!!!"
    /\ UNCHANGED << ctxState, shaderData, shaderTagCounter, bound_vshader_data,
                    bound_pshader_data, bound_program, linker_cache, programs,
                    handles, keys, blob, linked, refHistory, maxTag,
                    reg_file, uniform_staging, output >>

\* ------------------------------------------------------------------------
\* Specifications
\* ------------------------------------------------------------------------
\* Spec: the linker, its cache and shader deletion, compiling on the fly.
\* shaderTagCounter is a static of the process: the first context finds it
\* at its initializer.
ProcessStart ==
    /\ shaderTagCounter = 1
    /\ maxTag = 0
    /\ output = NoOutput

Init == ProcessStart /\ MOJOSHADER_sdlCreateContext(NoFile)

Next ==
    \/ MOJOSHADER_sdlCompileShader("ok", NoUniforms)
    \/ \E s \in ShaderIds : MOJOSHADER_sdlDeleteShader(s)
    \/ \E v, f \in ShaderIds \cup {NULL} : MOJOSHADER_sdlBindShaders(v, f)
    \/ \E va \in SomeLayouts, env \in Envs : LinkProgram(va, env)
    \/ MOJOSHADER_sdlDestroyContext

Spec == Init /\ [][Next]_vars

\* SpecKeys: links that succeed, over every layout.
NextKeys ==
    \/ MOJOSHADER_sdlCompileShader("ok", NoUniforms)
    \/ \E v, f \in ShaderIds \cup {NULL} : MOJOSHADER_sdlBindShaders(v, f)
    \/ \E va \in Layouts : LinkProgram(va, EnvOk)

SpecKeys == Init /\ [][NextKeys]_vars

\* SpecRef: reference counting, with add-ref and failing compiles.
NextRef ==
    \/ \E res \in {"ok", "parse error", "out of memory"} :
          MOJOSHADER_sdlCompileShader(res, NoUniforms)
    \/ \E s \in ShaderIds : MOJOSHADER_sdlShaderAddRef(s)
    \/ \E s \in ShaderIds : MOJOSHADER_sdlDeleteShader(s)
    \/ \E v, f \in ShaderIds \cup {NULL} : MOJOSHADER_sdlBindShaders(v, f)
    \/ LinkProgram(<< >>, EnvOk)

SpecRef == Init /\ [][NextRef]_vars

\* SpecArchive: the same calls with MojoShaderPrecompiled.bin present: with
\* one or two entries none of which has the hash link asks for, with the
\* hash present, and with a header count of 0.
ArchiveFiles ==
    { FileOf(<< U64(1) >>),
      FileOf(<< U64(3), U64(1) >>),
      FileOf(<< U64(1), U64(0) >>),
      FileOf(<< >>) }

InitArchive ==
    ProcessStart /\ \E file \in ArchiveFiles : MOJOSHADER_sdlCreateContext(file)

NextArchive ==
    \/ MOJOSHADER_sdlCompileShader("ok", NoUniforms)
    \/ \E s \in ShaderIds : MOJOSHADER_sdlDeleteShader(s)
    \/ \E v, f \in ShaderIds \cup {NULL} : MOJOSHADER_sdlBindShaders(v, f)
    \/ \E env \in {EnvOk, [EnvOk EXCEPT !.progAlloc = FALSE],
                    [EnvOk EXCEPT !.fragmentCreate = FALSE]} :
          LinkProgram(<< >>, env)
    \/ MOJOSHADER_sdlDestroyContext

SpecArchive == InitArchive /\ [][NextArchive]_vars

\* SpecBlob: archives of up to MaxBlobShaders entries with distinct hashes,
\* among them hashes next to 2^64, and lookups in them.
HashValues == { U64(0), U64(1), U64(3), U64Max }

BlobFiles ==
    { FileOf(h) : h \in
        { h \in UNION { [1..n -> HashValues] : n \in 1..MaxBlobShaders } :
            \A i, j \in DOMAIN h : i # j => h[i] # h[j] } }

InitBlob ==
    ProcessStart /\ \E file \in BlobFiles : MOJOSHADER_sdlCreateContext(file)

NextBlob == \E hash \in HashValues : FetchBlobShader(hash)

SpecBlob == InitBlob /\ [][NextBlob]_vars

\* SpecErrors: every failure of compile and of link, on the empty layout.
NextErrors ==
    \/ \E res \in {"ok", "parse error", "out of memory"} :
          MOJOSHADER_sdlCompileShader(res, NoUniforms)
    \/ \E v, f \in ShaderIds \cup {NULL} : MOJOSHADER_sdlBindShaders(v, f)
    \/ \E env \in Envs : LinkProgram(<< >>, env)

SpecErrors == Init /\ [][NextErrors]_vars

\* SpecDelete: the application also deletes programs link returned to it.
NextDelete ==
    \/ MOJOSHADER_sdlCompileShader("ok", NoUniforms)
    \/ \E s \in ShaderIds : MOJOSHADER_sdlDeleteShader(s)
    \/ \E v, f \in ShaderIds \cup {NULL} : MOJOSHADER_sdlBindShaders(v, f)
    \/ \E va \in SomeLayouts : LinkProgram(va, EnvOk)
    \/ \E p \in ProgramIds : DeleteProgram(p)

SpecDelete == Init /\ [][NextDelete]_vars

\* SpecUniforms: shaders with uniforms, register writes and push-uniforms
\* calls for the bound program.
NextUniforms ==
    \/ \E uniforms \in UniformLists : MOJOSHADER_sdlCompileShader("ok", uniforms)
    \/ \E v, f \in ShaderIds \cup {NULL} : MOJOSHADER_sdlBindShaders(v, f)
    \/ LinkProgram(<< >>, EnvOk)
    \/ MOJOSHADER_sdlMapUniformBufferMemory(RegisterContents(1))
    \/ \E env \in UpdateEnvs : UpdateUniformBuffers(env)

SpecUniforms == Init /\ [][NextUniforms]_vars

\* SpecPatch: the patcher alone, applied again and again to the IR of one
\* vertex shader, as successive links of that shader apply it.
InitPatch ==
    /\ shaderTagCounter = 1
    /\ maxTag = 0
    /\ output \in VertexOutputs
    /\ MOJOSHADER_sdlCreateContext(NoFile)

NextPatch == \E va \in PatchLayouts : PatchVertexAttributes(va)

SpecPatch == InitPatch /\ [][NextPatch]_vars

\* SpecLinkPatch: compile, bind and link with the IR of one vertex shader
\* under the patcher; the record allocation, a creation call or the
\* insertion may fail.
LinkPatchLayouts ==
    { << >>, << Attr(0, 0, 5) >>, << Attr(0, 0, 6), Attr(1, 0, 7) >> }

LinkPatchEnvs ==
    { EnvOk,
      [EnvOk EXCEPT !.progAlloc = FALSE],
      [EnvOk EXCEPT !.fragmentCreate = FALSE],
      [EnvOk EXCEPT !.insert = FALSE] }

InitLinkPatch ==
    /\ shaderTagCounter = 1
    /\ maxTag = 0
    /\ output \in VertexOutputs
    /\ MOJOSHADER_sdlCreateContext(NoFile)

NextLinkPatch ==
    \/ MOJOSHADER_sdlCompileShader("ok", NoUniforms)
    \/ \E v, f \in ShaderIds \cup {NULL} : MOJOSHADER_sdlBindShaders(v, f)
    \/ \E va \in LinkPatchLayouts, env \in LinkPatchEnvs : LinkProgram(va, env)

SpecLinkPatch == InitLinkPatch /\ [][NextLinkPatch]_vars

\* SpecCounts: links with layouts of 0, 1, 15, 16 and 17 attributes.
LayoutOf(n) == [i \in 1..n |-> Attr(i % 2, i \div 2, 2)]

CountLayouts ==
    { LayoutOf(n) : n \in {0, 1, MaxAttribs - 1, MaxAttribs, MaxAttribs + 1} }

NextCounts ==
    \/ MOJOSHADER_sdlCompileShader("ok", NoUniforms)
    \/ \E v, f \in ShaderIds \cup {NULL} : MOJOSHADER_sdlBindShaders(v, f)
    \/ \E va \in CountLayouts, env \in {EnvOk, [EnvOk EXCEPT !.trap = TRUE]} :
          LinkProgram(va, env)

SpecCounts == Init /\ [][NextCounts]_vars

\* SpecTags: a context of a process whose earlier contexts compiled shaders
\* (and deleted them): shaderTagCounter is not reset by
\* MOJOSHADER_sdlCreateContext, so after k compiles the next context finds it
\* at (1 + k) % 2^16.  The starts are k = 0 and k = 2^16 - 2.
TagCounterStarts == { 1, TagModulus - 1 }

InitTags ==
    /\ shaderTagCounter \in TagCounterStarts
    /\ maxTag = shaderTagCounter - 1
    /\ output = NoOutput
    /\ MOJOSHADER_sdlCreateContext(NoFile)

NextTags ==
    \/ \E res \in {"ok", "parse error", "out of memory"} :
          MOJOSHADER_sdlCompileShader(res, NoUniforms)
    \/ \E s \in ShaderIds : MOJOSHADER_sdlShaderAddRef(s)
    \/ \E s \in ShaderIds : MOJOSHADER_sdlDeleteShader(s)
    \/ \E v, f \in ShaderIds \cup {NULL} : MOJOSHADER_sdlBindShaders(v, f)

SpecTags == InitTags /\ [][NextTags]_vars

\* ------------------------------------------------------------------------
\* Properties
\* ------------------------------------------------------------------------
\* The programs the cache holds.
CachedPrograms == {linker_cache.items[i].value : i \in 1..Len(linker_cache.items)}

\* C1: a link of the same live shaders with an identical layout, after a
\* link of them that succeeded and with neither shader deleted nor the
\* context destroyed since, returns the same program instance and makes no
\* host-API creation call, whatever was linked in between.
C1_CacheHit ==
    [][ last'.op = "link" =>
          \A r \in linked :
              ( /\ r.v = bound_vshader_data
                /\ r.f = bound_pshader_data
                /\ r.va = last'.va )
              => /\ last'.ret = r.p
                 /\ last'.calls = << >> ]_vars

\* A hit on the older of two cached programs: another link came in between.
C1_Witness ==
    /\ last.op = "link"
    /\ last.calls = << >>
    /\ Len(linker_cache.items) = 2
    /\ last.ret = linker_cache.items[1].value
    /\ \E r \in linked : r.p = last.ret /\ r.va = last.va

\* C5: link with an empty vertex or fragment slot returns NULL, allocates
\* nothing, makes no host-API call, does not create the cache and leaves the
\* cache and the bound program as they were.
C5_EmptySlotFails ==
    [][ ( /\ last'.op = "link"
          /\ (bound_vshader_data = NULL \/ bound_pshader_data = NULL) )
        => /\ last'.ret = NULL
           /\ last'.calls = << >>
           /\ last'.attempt = NULL
           /\ UNCHANGED << linker_cache, programs, handles, keys,
                           bound_program >> ]_vars

\* A failed link with one slot empty while a program is cached and bound.
C5_Witness ==
    /\ last.op = "link"
    /\ bound_vshader_data = NULL
    /\ bound_pshader_data # NULL
    /\ last.ret = NULL
    /\ bound_program # NULL
    /\ linker_cache.items # << >>

\* C6: on a miss where the vertex creation call succeeds and the fragment
\* creation call fails, the vertex handle of that attempt is released, the
\* program record is freed, link returns NULL and the cache gains no entry;
\* where the vertex creation call fails, no fragment call is made.
C6_AllOrNothing ==
    [][ ( /\ last'.op = "link"
          /\ last'.attempt # NULL
          /\ last'.calls # << >> )
        => /\ ( handles'[PixelHandleOf(last'.attempt)] = "none"
                /\ last'.calls = << "vertex", "fragment" >> )
              => /\ handles'[VertexHandleOf(last'.attempt)] = "released"
                 /\ programs'[last'.attempt].st = "freed"
                 /\ last'.ret = NULL
                 /\ linker_cache'.items = linker_cache.items
           /\ handles'[VertexHandleOf(last'.attempt)] = "none"
              => last'.calls = << "vertex" >> ]_vars

\* A fragment creation failure while another program is cached.
C6_Witness ==
    /\ last.op = "link"
    /\ last.calls = << "vertex", "fragment" >>
    /\ last.ret = NULL
    /\ handles[PixelHandleOf(last.attempt)] = "none"
    /\ handles[VertexHandleOf(last.attempt)] = "released"
    /\ linker_cache.items # << >>

\* C7: every program that is in the cache, is the bound program or was
\* returned by link has both its vertex and its fragment handle.
C7_BothHandles ==
    \A p \in (CachedPrograms \cup {bound_program} \cup {r.p : r \in linked}
               \cup (IF last.op = "link" THEN {last.ret} ELSE {})) \ {NULL} :
        /\ programs[p].vertexShader # NULL
        /\ programs[p].pixelShader # NULL

\* A half-built record exists (freed) while a complete program is cached
\* and bound.
C7_Witness ==
    /\ \E p \in ProgramIds : /\ programs[p].vertexShader # NULL
                              /\ programs[p].pixelShader = NULL
    /\ bound_program \in CachedPrograms

\* C3: when deleteShader destroys a ShaderData, every cache entry whose key
\* names it as vertex or fragment stage is removed and its program deleted;
\* and after every call each cached program's vertexShaderData and
\* pixelShaderData are live ShaderData.
C3_EvictionSafety ==
    [][ /\ \A s \in ShaderIds :
              (shaderData[s].st = "live" /\ shaderData'[s].st = "freed") =>
                  /\ \A i \in 1..Len(linker_cache'.items) :
                        /\ linker_cache'.items[i].key.vertex # s
                        /\ linker_cache'.items[i].key.fragment # s
                  /\ \A i \in 1..Len(linker_cache.items) :
                        ( \/ linker_cache.items[i].key.vertex = s
                          \/ linker_cache.items[i].key.fragment = s )
                        => programs'[linker_cache.items[i].value].st # "live"
        /\ \A i \in 1..Len(linker_cache'.items) :
              LET p == linker_cache'.items[i].value
              IN  /\ shaderData'[programs'[p].vertexShaderData].st = "live"
                  /\ shaderData'[programs'[p].pixelShaderData].st = "live" ]_vars

\* C4: no GPU shader handle is released twice, no program record and no
\* cache key is freed twice.
C4_ReleasedOnce ==
    /\ \A h \in HandleIds : handles[h] # "doublerelease"
    /\ \A p \in ProgramIds : programs[p].st # "doublefree"
    /\ \A k \in ProgramIds : keys[k] # "doublefree"

\* C2: a successful link whose request differs from an earlier successful
\* one in a shader tag, in the attribute count or in any attribute's usage,
\* usageIndex or vertexElementFormat returns a program distinct from the
\* earlier one; and when it differs from every earlier successful request it
\* is a miss: both host-API creation calls are made.
C2_CacheDiscrimination ==
    [][ ( /\ last'.op = "link"
          /\ last'.ret # NULL
          /\ programs'[last'.ret].st = "live"
          /\ bound_vshader_data \in LiveShaders
          /\ bound_pshader_data \in LiveShaders )
        => LET differs(r) ==
                   \/ shaderData[r.v].tag # shaderData[bound_vshader_data].tag
                   \/ shaderData[r.f].tag # shaderData[bound_pshader_data].tag
                   \/ Len(r.va) # Len(last'.va)
                   \/ \E i \in 1..Len(r.va) :
                         \/ r.va[i].usage # last'.va[i].usage
                         \/ r.va[i].usageIndex # last'.va[i].usageIndex
                         \/ r.va[i].vertexElementFormat
                               # last'.va[i].vertexElementFormat
           IN  /\ \A r \in linked : differs(r) => last'.ret # r.p
               /\ (\A r \in linked : differs(r))
                     => last'.calls = << "vertex", "fragment" >> ]_vars

\* Two cached programs whose keys share a bucket and differ in format only,
\* the second one just created.
C2_Witness ==
    /\ Len(linker_cache.items) = 2
    /\ linker_cache.items[1].bucket = linker_cache.items[2].bucket
    /\ linker_cache.items[1].key # linker_cache.items[2].key
    /\ linker_cache.items[1].value # linker_cache.items[2].value
    /\ last.op = "link"
    /\ last.ret = linker_cache.items[2].value
    /\ last.calls = << "vertex", "fragment" >>

\* C8: a lookup of a hash the archive file holds finds the slot with that
\* entry's offset and size and its binary.
C8_RoundTrip ==
    last.op = "fetch" =>
        \A i \in 1..Len(blob.file.entries) :
            blob.file.entries[i].hash = last.fetch.hash =>
                /\ last.fetch.found
                /\ blob.hashes[last.fetch.searchIndex + 1] = blob.file.entries[i]
                /\ last.fetch.size = blob.file.entries[i].size
                /\ blob.shaders[last.fetch.searchIndex + 1].binary
                      = << blob.file.entries[i].offset, blob.file.entries[i].size >>

\* C9: with an archive that does not hold the hash link asks for, a miss
\* compares at most numShaders slots in each lookup, sets the "incomplete"
\* error, returns NULL, makes no host-API creation call and leaves the
\* cache's entries and the bound program as they were, the context alive.
C9_ArchiveMiss ==
    [][ ( /\ last'.op = "link"
          /\ last'.probes # << >>
          /\ \A i \in 1..Len(blob.file.entries) :
                /\ blob.file.entries[i].hash # hash_vertex_shader
                /\ blob.file.entries[i].hash # hash_pixel_shader )
        => /\ Len(last'.probes) = 2
           /\ \A k \in 1..Len(last'.probes) : last'.probes[k] <= blob.numShaders
           /\ error_buffer' = "MojoShaderPrecompiled.bin is incomplete!!!"
           /\ last'.ret = NULL
           /\ last'.calls = << >>
           /\ linker_cache'.items = linker_cache.items
           /\ bound_program' = bound_program
           /\ ctxState' = "alive" ]_vars

\* A miss in a two-entry archive: both lookups compared both slots.
C9_Witness ==
    /\ last.op = "link"
    /\ last.probes = << 2, 2 >>
    /\ blob.numShaders = 2
    /\ last.ret = NULL
    /\ error_buffer = "MojoShaderPrecompiled.bin is incomplete!!!"
    /\ linker_cache.created

\* C10: a live ShaderData's refcount is 1 plus its add-refs minus its
\* deletes; it is destroyed exactly when its deletes exceed its add-refs;
\* and a delete that does not destroy it leaves the cache, the programs,
\* the handles and the bound program as they were.
C10_RefCount ==
    [][ /\ \A s \in ShaderIds :
              /\ shaderData'[s].st = "live" =>
                    /\ shaderData'[s].refcount
                          = 1 + refHistory'[s].addrefs - refHistory'[s].deletes
                    /\ refHistory'[s].deletes <= refHistory'[s].addrefs
              /\ shaderData'[s].st = "freed" =>
                    refHistory'[s].deletes = refHistory'[s].addrefs + 1
              /\ ( /\ refHistory'[s].deletes = refHistory[s].deletes + 1
                    /\ refHistory[s].deletes < refHistory[s].addrefs )
                  => /\ shaderData'[s].st = "live"
                     /\ UNCHANGED << linker_cache, programs, handles, keys,
                                     bound_program >> ]_vars

\* One shader destroyed by the delete after its add-refs were used up, the
\* other still alive and cached after an add-ref and a delete.
C10_Witness ==
    \E s, t \in ShaderIds :
        /\ shaderData[s].st = "freed"
        /\ refHistory[s].addrefs >= 1
        /\ refHistory[s].deletes = refHistory[s].addrefs + 1
        /\ shaderData[t].st = "live"
        /\ refHistory[t].addrefs >= 1
        /\ refHistory[t].deletes >= 1
        /\ \E i \in 1..Len(linker_cache.items) :
              linker_cache.items[i].key.vertex = t

\* C11: the ShaderData a successful compile creates gets a tag that is not
\* zero, is greater than the tag of every ShaderData created before it and
\* so differs from the tag of every other ShaderData.
C11_TagsIncrease ==
    [][ \A s \in ShaderIds :
          (shaderData[s].st = "unalloc" /\ shaderData'[s].st = "live") =>
              /\ shaderData'[s].tag # 0
              /\ shaderData'[s].tag > maxTag
              /\ \A t \in ShaderIds \ {s} :
                    shaderData'[t].st # "unalloc"
                        => shaderData'[t].tag # shaderData'[s].tag ]_vars

\* C12: a link call that fails (returns NULL to its caller) leaves the bound
\* program, the cache's entries and every ShaderData as they were.
C12_FailedLinkFrame ==
    [][ ( /\ last'.op = "link"
          /\ last'.ret = NULL
          /\ ctxState' = "alive" )
        => /\ bound_program' = bound_program
           /\ linker_cache'.items = linker_cache.items
           /\ shaderData' = shaderData ]_vars

\* C13: every compile or link call that fails returns NULL and passes a
\* message to set_error during the call, so that the last-error message is
\* the one of this failure.
C13_FailureSetsError ==
    [][ ( /\ last'.op \in {"compile", "link"}
          /\ last'.ret = NULL
          /\ ctxState' = "alive" )
        => /\ last'.error # ""
           /\ error_buffer' = last'.error ]_vars

\* C14: when both handles of a new program were created and inserting it
\* into the cache fails, link sets "out of memory", frees the key, releases
\* each of the two handles once, frees the record once and returns NULL; the
\* program is neither cached nor bound.
C14_InsertFailure ==
    [][ ( /\ last'.op = "link"
          /\ last'.attempt # NULL
          /\ handles'[PixelHandleOf(last'.attempt)] # "none"
          /\ last'.ret = NULL
          /\ ctxState' = "alive" )
        => /\ last'.error = "out of memory"
           /\ error_buffer' = "out of memory"
           /\ keys'[last'.attempt] # "live"
           /\ handles'[VertexHandleOf(last'.attempt)] = "released"
           /\ handles'[PixelHandleOf(last'.attempt)] = "released"
           /\ programs'[last'.attempt].st = "freed"
           /\ last'.attempt \notin CachedPrograms'
           /\ bound_program' # last'.attempt
           /\ linker_cache'.items = linker_cache.items ]_vars

\* C15: a link call on two bound shaders in which an allocation fails (the
\* cache is still not created after the call; or no record was allocated and
\* nothing is returned; or both handles were created and no key block was
\* allocated) returns NULL with "out of memory", releases what the attempt
\* created exactly once, inserts nothing and touches no freed memory.
C15_AllocationFailure ==
    [][ ( /\ last'.op = "link"
          /\ bound_vshader_data # NULL
          /\ bound_pshader_data # NULL
          /\ \/ ~linker_cache'.created
             \/ last'.attempt = NULL /\ last'.ret = NULL /\ ctxState' = "alive"
             \/ /\ last'.attempt # NULL
                /\ handles'[PixelHandleOf(last'.attempt)] # "none"
                /\ keys'[last'.attempt] = "unalloc" )
        => /\ ctxState' = "alive"
           /\ last'.ret = NULL
           /\ last'.error = "out of memory"
           /\ error_buffer' = "out of memory"
           /\ linker_cache'.items = linker_cache.items
           /\ bound_program' = bound_program
           /\ last'.attempt # NULL =>
                 /\ handles'[VertexHandleOf(last'.attempt)] = "released"
                 /\ handles'[PixelHandleOf(last'.attempt)] = "released"
                 /\ programs'[last'.attempt].st = "freed" ]_vars

\* C16: delete(program) releases the program's two handles and frees its
\* record; the bound program becomes NULL if it was this program and is
\* unchanged otherwise; the cache, the bound shader slots, every ShaderData
\* and every other program and handle are unchanged.
C16_DeleteProgramFrame ==
    [][ last'.op = "deleteProgram" =>
          LET p == last'.program
          IN  /\ handles'[programs[p].vertexShader] = "released"
              /\ handles'[programs[p].pixelShader] = "released"
              /\ programs'[p].st = "freed"
              /\ bound_program' = IF bound_program = p THEN NULL
                                  ELSE bound_program
              /\ \A q \in ProgramIds \ {p} : programs'[q] = programs[q]
              /\ \A h \in HandleIds \ {programs[p].vertexShader,
                                        programs[p].pixelShader} :
                    handles'[h] = handles[h]
              /\ UNCHANGED << linker_cache, keys, bound_vshader_data,
                              bound_pshader_data, shaderData >> ]_vars

\* The older of two cached programs was deleted while the newer one is
\* bound: the bound reference stays and the cache still has both entries.
C16_Witness ==
    /\ last.op = "deleteProgram"
    /\ Len(linker_cache.items) = 2
    /\ last.program = linker_cache.items[1].value
    /\ bound_program = linker_cache.items[2].value
    /\ handles[programs[last.program].vertexShader] = "released"
    /\ handles[programs[bound_program].vertexShader] = "live"

\* C17: a program record is absent (not allocated, or freed) or linked (live,
\* cached).  The record a link call builds was absent before the call and
\* after it is either linked (cached, bound and returned) or absent and
\* then neither cached, bound nor returned; no other call makes a record
\* linked; and a linked record becomes absent only by leaving the cache.
C17_Lifecycle ==
    [][ /\ ( last'.op = "link" /\ last'.attempt # NULL ) =>
              LET a == last'.attempt
              IN  /\ programs[a].st # "live"
                  /\ \/ /\ programs'[a].st = "live"
                        /\ a \in CachedPrograms'
                        /\ bound_program' = a
                        /\ last'.ret = a
                     \/ /\ programs'[a].st # "live"
                        /\ a \notin CachedPrograms'
                        /\ bound_program' # a
                        /\ last'.ret = NULL
        /\ \A p \in ProgramIds :
              /\ ( programs[p].st # "live" /\ programs'[p].st = "live" )
                    => last'.op = "link" /\ last'.attempt = p
              /\ ( programs[p].st = "live" /\ programs'[p].st # "live" )
                    => p \in CachedPrograms /\ p \notin CachedPrograms' ]_vars


\* ------------------------------------------------------------------------
\* Uniform marshalling
\* ------------------------------------------------------------------------
\* The byte offset of uniform k: 16 * sum over earlier uniforms of
\* max(arrayCount, 1).
RECURSIVE OffsetOfUniform(_, _)
OffsetOfUniform(uniforms, k) ==
    IF k = 1 THEN 0
    ELSE OffsetOfUniform(uniforms, k - 1)
         + 16 * (IF uniforms[k - 1].array_count > 1
                 THEN uniforms[k - 1].array_count ELSE 1)

\* The shader and the register files of one stage of the bound program.
StageOfPush(push) ==
    IF push.stage = "vertex"
    THEN [shader |-> shaderData[programs[bound_program].vertexShaderData],
          regF |-> reg_file.vs_reg_file_f, regI |-> reg_file.vs_reg_file_i,
          regB |-> reg_file.vs_reg_file_b]
    ELSE [shader |-> shaderData[programs[bound_program].pixelShaderData],
          regF |-> reg_file.ps_reg_file_f, regI |-> reg_file.ps_reg_file_i,
          regB |-> reg_file.ps_reg_file_b]

\* Bytes b .. b + 3 of the pushed data, as one word.
WordAtByte(push, b) == push.data[(b \div 4) + 1]

\* C18: marshalling writes uniform k at byte offset 16 * sum over earlier
\* uniforms of max(arrayCount, 1); element j of a float or integer uniform
\* is the 16 bytes of register (index + j), element j of a boolean uniform
\* has boolean register (index + j) in the first word of its 16-byte slot.
C18_MarshalLayout ==
    last.op = "update" =>
        \A n \in DOMAIN last.pushes :
            LET push == last.pushes[n]
                s == StageOfPush(push)
                uniforms == s.shader.uniforms
            IN  \A k \in DOMAIN uniforms :
                  LET u == uniforms[k]
                      count == IF u.array_count > 1 THEN u.array_count ELSE 1
                      base == OffsetOfUniform(uniforms, k)
                  IN  \A j \in 0..(count - 1) :
                        CASE u.type = "float" ->
                                 \A c \in 0..3 :
                                     WordAtByte(push, base + 16 * j + 4 * c)
                                         = s.regF[u.index + j][c]
                          [] u.type = "int" ->
                                 \A c \in 0..3 :
                                     WordAtByte(push, base + 16 * j + 4 * c)
                                         = s.regI[u.index + j][c]
                          [] u.type = "bool" ->
                                 WordAtByte(push, base + 16 * j)
                                     = s.regB[u.index + j]

\* One float scalar at register 0 and one boolean array of 2 at register 4,
\* marshalled from written registers: 48 bytes, the float vector in bytes
\* 0-15, bools[4] in bytes 16-19 and bools[5] in bytes 32-35.
C18_Witness ==
    /\ last.op = "update"
    /\ reg_file = RegisterContents(1)
    /\ \E n \in DOMAIN last.pushes :
          LET push == last.pushes[n]
          IN  /\ push.stage = "vertex"
              /\ StageOfPush(push).shader.uniforms
                     = << Uniform("float", 0, 0), Uniform("bool", 4, 2) >>
              /\ push.length = 48
              /\ \A c \in 0..3 :
                     WordAtByte(push, 4 * c) = reg_file.vs_reg_file_f[0][c]
              /\ WordAtByte(push, 16) = reg_file.vs_reg_file_b[4]
              /\ WordAtByte(push, 32) = reg_file.vs_reg_file_b[5]
              /\ reg_file.vs_reg_file_b[4] # reg_file.vs_reg_file_b[5]

\* The pushes a push-uniforms call owes the bound program: one per stage
\* whose uniformBufferSize is not zero, vertex first, of that length.
PushesOwed ==
    LET vsd == shaderData[programs[bound_program].vertexShaderData]
        psd == shaderData[programs[bound_program].pixelShaderData]
    IN  (IF vsd.uniformBufferSize # 0
         THEN << [stage |-> "vertex", length |-> vsd.uniformBufferSize] >>
         ELSE << >>)
        \o (IF psd.uniformBufferSize # 0
            THEN << [stage |-> "fragment", length |-> psd.uniformBufferSize] >>
            ELSE << >>)

\* C19: a push-uniforms call for the bound program issues, for each stage,
\* exactly one host-API uniform push if that stage's uniformBufferSize is
\* not zero and none, with no marshalling, if it is zero; the pushed length
\* is that stage's uniformBufferSize.
C19_PushPerStage ==
    [][last'.op = "update" =>
          /\ [n \in DOMAIN last'.pushes |->
                 [stage |-> last'.pushes[n].stage,
                  length |-> last'.pushes[n].length]] = PushesOwed
          /\ PushesOwed = << >> => uniform_staging' = uniform_staging]_vars


\* ------------------------------------------------------------------------
\* The SPIR-V patcher
\* ------------------------------------------------------------------------
\* The selection the patcher owes one element format.
SelectionOwed(vTable, format) ==
    CASE format = 5 ->
             [typeDecl |-> vTable.tid_uvec4_p, typeLoad |-> vTable.tid_uvec4,
              opcodeLoad |-> SpvOpConvertUToF]
      [] format \in {6, 7} ->
             [typeDecl |-> vTable.tid_ivec4_p, typeLoad |-> vTable.tid_ivec4,
              opcodeLoad |-> SpvOpConvertSToF]
      [] OTHER ->
             [typeDecl |-> vTable.tid_vec4_p, typeLoad |-> vTable.tid_vec4,
              opcodeLoad |-> SpvOpCopyObject]

\* The word offset of the type declaration of element e's attribute.
DeclOffset(vTable, e) == vTable.attrib_type_offsets[e.usage][e.usageIndex]

\* The words carry the selection owed to element e.
CarriesSelection(words, vTable, e) ==
    LET owed == SelectionOwed(vTable, e.vertexElementFormat)
        loads == vTable.attrib_type_load_offsets[e.usage][e.usageIndex]
    IN  /\ words[DeclOffset(vTable, e)] = owed.typeDecl
        /\ \A j \in 1..loads.num_loads :
              /\ words[loads.load_types[j]] = owed.typeLoad
              /\ words[loads.load_opcodes[j]] % OpcodeModulus = owed.opcodeLoad

\* C20: for every attribute of the layout the patcher selects the unsigned
\* vector type ids and the unsigned-to-float convert for format 5, the
\* signed ones for formats 6 and 7, the float ones and the copy for any
\* other format, and overwrites the attribute's type-declaration word and
\* the type word of every recorded load of it with the selected ids: the IR
\* carries them after the attribute's iteration, and at the end for every
\* attribute whose declaration word no later attribute of the layout has.
C20_PatchSelection ==
    last.op = "patch" =>
        \A i \in 1..Len(last.va) :
            /\ CarriesSelection(last.patched[i], output.table, last.va[i])
            /\ (\A k \in (i + 1)..Len(last.va) :
                    DeclOffset(output.table, last.va[k])
                        # DeclOffset(output.table, last.va[i]))
               => CarriesSelection(output.words, output.table, last.va[i])

\* A layout of a format-5 and a format-6 attribute, both declared and loaded
\* by the shader, has been patched into the IR.
C20_Witness ==
    /\ last.op = "patch"
    /\ last.va = << Attr(0, 0, 5), Attr(1, 0, 6) >>
    /\ output.table.attrib_type_load_offsets[0][0].num_loads = 2
    /\ output.table.attrib_type_load_offsets[1][0].num_loads = 1
    /\ output.words[3] = output.table.tid_uvec4_p
    /\ output.words[7] = output.table.tid_uvec4
    /\ output.words[10] = output.table.tid_uvec4
    /\ output.words[9] = 4 * OpcodeModulus + SpvOpConvertUToF
    /\ output.words[5] = output.table.tid_ivec4_p
    /\ output.words[13] = output.table.tid_ivec4
    /\ output.words[12] = 4 * OpcodeModulus + SpvOpConvertSToF


\* The words the patcher's iteration i started from, in a patch step.
WordsBefore(i) == IF i = 1 THEN output.words ELSE last'.patched[i - 1]

\* C21: when the patcher rewrites a load site's opcode word, the high 16
\* bits of the word are the same before and after and the low 16 bits
\* afterwards are the selected conversion opcode, whatever the word held.
C21_OpcodeWord ==
    [][last'.op = "patch" =>
          \A i \in 1..Len(last'.va) :
              LET e == last'.va[i]
                  loads == output.table.attrib_type_load_offsets
                               [e.usage][e.usageIndex]
              IN  \A j \in 1..loads.num_loads :
                      LET before == WordsBefore(i)[loads.load_opcodes[j]]
                          after == last'.patched[i][loads.load_opcodes[j]]
                      IN  /\ after \div OpcodeModulus
                                 = before \div OpcodeModulus
                          /\ after % OpcodeModulus
                                 = SelectionOwed(output.table,
                                       e.vertexElementFormat).opcodeLoad]_vars

\* An opcode word with every bit below the sign set has been patched for a
\* format-5 attribute: its high half stands, its low half is the convert.
C21_Witness ==
    /\ last.op = "patch"
    /\ last.va = << Attr(1, 0, 5) >>
    /\ output.words[12]
           = ((OpcodeModulus \div 2) - 1) * OpcodeModulus + SpvOpConvertUToF
    /\ output.words[9]
           = ((OpcodeModulus \div 2) - 1) * OpcodeModulus + (OpcodeModulus - 1)


\* The cache entry a link call with layout va finds, 0 for none.
FoundByLink(va) ==
    IF bound_vshader_data = NULL \/ bound_pshader_data = NULL THEN 0
    ELSE hash_find(shaderData, linker_cache.items,
                   MakeLinkedShaderData(bound_vshader_data,
                                        bound_pshader_data, va))

\* C22: a link call that hits the cache changes only the currently bound
\* program, which becomes the cached program: it patches no IR, changes no
\* cache entry and allocates no key and no program.
C22_HitFrame ==
    [][/\ last'.op = "link"
       /\ bound_vshader_data \in LiveShaders
       /\ bound_pshader_data \in LiveShaders
       /\ linker_cache.created
       /\ FoundByLink(last'.va) # 0
       => /\ bound_program' = linker_cache.items[FoundByLink(last'.va)].value
          /\ last'.ret = bound_program'
          /\ output' = output
          /\ linker_cache' = linker_cache
          /\ programs' = programs
          /\ keys' = keys
          /\ handles' = handles
          /\ last'.attempt = NULL
          /\ last'.calls = << >>
          /\ UNCHANGED << ctxState, shaderData, shaderTagCounter,
                          bound_vshader_data, bound_pshader_data, blob,
                          error_buffer, reg_file, uniform_staging >>]_vars

\* A link has hit the cache for a layout with an integer attribute while
\* the tracked shader's IR was patched for another layout and another
\* program was bound: the IR stands and the cached program is bound.
C22_Witness ==
    /\ last.op = "link"
    /\ last.va = << Attr(0, 0, 5) >>
    /\ last.ret # NULL
    /\ last.attempt = NULL
    /\ bound_vshader_data = TrackedShader
    /\ bound_program = last.ret
    /\ output.words[3] = output.table.tid_ivec4_p
    /\ output.words[5] = output.table.tid_ivec4_p
    /\ Len(linker_cache.items) = 2


\* ------------------------------------------------------------------------
\* The archive build
\* ------------------------------------------------------------------------
\* The slots (from 0) of the table that hold entry i of the file.
SlotsOf(i) ==
    {k \in 0..(blob.numShaders - 1) : blob.hashes[k + 1] = blob.file.entries[i]}

\* The slots taken by the entries of the file before entry i.
TakenBefore(i) == UNION {SlotsOf(k) : k \in 1..(i - 1)}

\* C23: for a file of N >= 1 entries the build places each entry in the
\* first unused slot probing forward with wrap-around from home + 1 (home =
\* hash % N), finds it within N probes, and ends with each of the N slots
\* holding exactly one entry.
C23_ArchiveBuild ==
    blob.numShaders >= 1 =>
        LET n == blob.numShaders
        IN  /\ \A i \in 1..n :
                 \E d \in 1..n :
                    LET home == U64Mod(blob.file.entries[i].hash, n)
                    IN  /\ SlotsOf(i) = {(home + d) % n}
                        /\ \A c \in 1..(d - 1) : (home + c) % n \in TakenBefore(i)
                        /\ (home + d) % n \notin TakenBefore(i)
            /\ \A k \in 0..(n - 1) : \E i \in 1..n : SlotsOf(i) = {k}
            /\ \A k \in 1..n : load_precompiled_blob(blob.file).usedEntries[k] = 1

\* Three entries with one home, the last of them placed after wrapping past
\* the end of the table, and a lookup has run on the built table.
C23_Witness ==
    /\ blob.numShaders = 3
    /\ \A i \in 1..3 : U64Mod(blob.file.entries[i].hash, 3) = 0
    /\ SlotsOf(1) = {1}
    /\ SlotsOf(2) = {2}
    /\ SlotsOf(3) = {0}
    /\ last.op = "fetch"


\* C24: a ShaderData's uniformBufferSize is 16 * sum over its uniforms of
\* max(arrayCount, 1) and is the offset marshalling ends at; marshalling
\* first grows the staging buffer to at least uniformBufferSize, so every
\* byte it writes lies inside the staging buffer.
C24_StagingBounds ==
    /\ \A s \in LiveShaders :
          /\ shaderData[s].uniformBufferSize
                 = OffsetOfUniform(shaderData[s].uniforms,
                                   Len(shaderData[s].uniforms) + 1)
          /\ shaderData[s].uniformBufferSize
                 = FinalOffset(shaderData[s].uniforms, 1, 0)
    /\ last.op = "update" /\ PushesOwed # << >> =>
          /\ ctxState = "alive"
          /\ uniform_staging.st = "live"
          /\ \A n \in DOMAIN last.pushes :
                /\ last.pushes[n].ptr = "live"
                /\ FinalOffset(StageOfPush(last.pushes[n]).shader.uniforms, 1, 0)
                       <= uniform_staging.length
                /\ uniform_staging.length
                       = WordBytes * Len(uniform_staging.words)


\* C25: after a link call that misses and succeeds the cache holds exactly
\* one more entry; its key holds the two bound shaders and the layout in
\* order, its program holds the two handles just created and refers to the
\* bound vertex and fragment ShaderData, and that program is the bound
\* program and the value returned.
C25_MissAddsEntry ==
    [][/\ last'.op = "link"
       /\ bound_vshader_data \in LiveShaders
       /\ bound_pshader_data \in LiveShaders
       /\ FoundByLink(last'.va) = 0
       /\ last'.ret # NULL
       => LET n == Len(linker_cache.items)
              p == last'.ret
          IN  /\ Len(linker_cache'.items) = n + 1
              /\ SubSeq(linker_cache'.items, 1, n) = linker_cache.items
              /\ linker_cache'.items[n + 1].key
                     = MakeLinkedShaderData(bound_vshader_data,
                                            bound_pshader_data, last'.va)
              /\ \A i \in 1..Len(last'.va) :
                     linker_cache'.items[n + 1].key.vertexAttributes[i]
                         = last'.va[i]
              /\ linker_cache'.items[n + 1].value = p
              /\ linker_cache'.items[n + 1].item # NULL
              /\ keys'[linker_cache'.items[n + 1].item] = "live"
              /\ programs'[p].st = "live"
              /\ programs'[p].vertexShaderData = bound_vshader_data
              /\ programs'[p].pixelShaderData = bound_pshader_data
              /\ programs'[p].vertexShader = VertexHandleOf(p)
              /\ programs'[p].pixelShader = PixelHandleOf(p)
              /\ handles'[VertexHandleOf(p)] = "live"
              /\ handles'[PixelHandleOf(p)] = "live"
              /\ last'.calls = << "vertex", "fragment" >>
              /\ bound_program' = p]_vars


\* C26: for every attribute count passed to link the key link builds holds
\* at most 16 descriptors: the supplied ones in order in the 16-slot
\* storage, zero in the slots at and beyond the count, and no write past
\* the 16th slot.
C26_KeyStorage ==
    [][/\ last'.op = "link"
       /\ bound_vshader_data # NULL
       /\ bound_pshader_data # NULL
       /\ linker_cache'.created
       => LET shaders == MakeLinkedShaderData(bound_vshader_data,
                                              bound_pshader_data, last'.va)
          IN  /\ DOMAIN shaders.vertexAttributes = 1..MaxAttribs
              /\ shaders.vertexAttributeCount <= MaxAttribs
              /\ \A i \in 1..MaxAttribs :
                    shaders.vertexAttributes[i]
                        = IF i <= Len(last'.va) THEN last'.va[i] ELSE ZeroAttr
              /\ ctxState' = "alive"
              /\ \A k \in 1..Len(linker_cache'.items) :
                    DOMAIN linker_cache'.items[k].key.vertexAttributes
                        = 1..MaxAttribs]_vars


\* The words marshalling writes into a push's data hold the registers s
\* names: for every uniform, the four words of each float or integer
\* element and the first word of each boolean element.
WrittenFrom(push, s) ==
    \A k \in DOMAIN s.shader.uniforms :
        LET u == s.shader.uniforms[k]
            count == IF u.array_count > 1 THEN u.array_count ELSE 1
            base == OffsetOfUniform(s.shader.uniforms, k)
            reg == IF u.type = "float" THEN s.regF ELSE s.regI
        IN  \A j \in 0..(count - 1) :
                IF u.type = "bool"
                THEN WordAtByte(push, base + 16 * j) = s.regB[u.index + j]
                ELSE \A c \in 0..3 :
                         WordAtByte(push, base + 16 * j + 4 * c)
                             = reg[u.index + j][c]

\* The values the register files s names hold.
RegisterValues(s) ==
    UNION { { s.regF[r][c], s.regI[r][c] } : r \in 0..MaxRegister, c \in 0..3 }
        \cup { s.regB[r] : r \in 0..MaxRegister }

BothStagesSized ==
    /\ shaderData[programs[bound_program].vertexShaderData].uniformBufferSize # 0
    /\ shaderData[programs[bound_program].pixelShaderData].uniformBufferSize # 0

C28_BoundProgramCached ==
    ctxState = "alive" /\ bound_program # NULL =>
        /\ bound_program \in CachedPrograms
        /\ programs[bound_program].st = "live"
        /\ handles[VertexHandleOf(bound_program)] = "live"
        /\ handles[PixelHandleOf(bound_program)] = "live"


\* C29: a link that misses the cache fetches binaries from the archive
\* exactly when MojoShaderPrecompiled.bin was opened at context creation,
\* which is also when compile uses the "bytecode" profile; otherwise it
\* patches the generated code.  This holds for every shader count in the
\* archive header, 0 included.
C29_ArchivePath ==
    [][ last'.op = "link" /\ last'.attempt # NULL
        => /\ blob.opened <=> blob.profile = "bytecode"
           /\ Len(last'.probes) = 2 <=> blob.opened
           /\ last'.patched # << >> => ~blob.opened ]_vars


\* C30: after any sequence of bind-shaders, deleteShader and link calls the
\* bound vertex slot and the bound fragment slot each hold nothing or a
\* ShaderData that has not been destroyed, so link never reads a destroyed
\* ShaderData.
C30_BoundSlotsLive ==
    ctxState = "alive" =>
        /\ bound_vshader_data # NULL => shaderData[bound_vshader_data].st = "live"
        /\ bound_pshader_data # NULL => shaderData[bound_pshader_data].st = "live"


\* SpecWrap: a context in which one ShaderData is alive with tag 1 and
\* shaderTagCounter has gone round: after the compile of that shader, 2^16 - 1
\* further shaders were compiled and deleted again (none bound, none
\* linked), which leaves the counter at 1.  The other start is the same
\* context right after the first compile.
InitWrap ==
    /\ ctxState = "alive"
    /\ shaderTagCounter \in {1, 2}
    /\ maxTag = IF shaderTagCounter = 1 THEN TagModulus - 1 ELSE 1
    /\ shaderData = [s \in ShaderIds |->
                        IF s = 1
                        THEN [st |-> "live", tag |-> 1, refcount |-> 1,
                              uniforms |-> NoUniforms,
                              uniformBufferSize |-> UniformBufferSizeOf(NoUniforms)]
                        ELSE NoShader]
    /\ bound_vshader_data = NULL
    /\ bound_pshader_data = NULL
    /\ bound_program = NULL
    /\ linker_cache = [created |-> FALSE, items |-> << >>]
    /\ programs = [p \in ProgramIds |-> NoProgram]
    /\ handles = [h \in HandleIds |-> "none"]
    /\ keys = [k \in ProgramIds |-> "unalloc"]
    /\ blob = [load_precompiled_blob(NoFile) EXCEPT !.usedEntries = << >>] @@
              [file |-> NoFile, profile |-> "spirv"]
    /\ reg_file = ZeroRegisters
    /\ uniform_staging = NoStaging
    /\ error_buffer = ""
    /\ last = NoLast
    /\ linked = {}
    /\ refHistory = [s \in ShaderIds |-> [addrefs |-> 0, deletes |-> 0]]
    /\ output = NoOutput

NextWrap ==
    \/ MOJOSHADER_sdlCompileShader("ok", NoUniforms)
    \/ \E s \in ShaderIds : MOJOSHADER_sdlDeleteShader(s)
    \/ \E v, f \in ShaderIds \cup {NULL} : MOJOSHADER_sdlBindShaders(v, f)
    \/ \E va \in SomeLayouts : LinkProgram(va, EnvOk)

SpecWrap == InitWrap /\ [][NextWrap]_vars

\* C31: a program that link returns on a cache hit has the bound vertex
\* ShaderData as its vertexShaderData and the bound fragment ShaderData as
\* its pixelShaderData (the same instances), for any number of shaders
\* compiled before.
C31_HitSameInstances ==
    [][ /\ last'.op = "link"
        /\ last'.ret # NULL
        /\ last'.attempt = NULL
        /\ last'.calls = << >>
        => /\ programs'[last'.ret].vertexShaderData = bound_vshader_data
           /\ programs'[last'.ret].pixelShaderData = bound_pshader_data ]_vars


\* The words the patcher's loop leaves when it runs for layout va on words.
PatchOf(words, vTable, va) ==
    IF va = << >> THEN words ELSE PatchFrom(words, vTable, va, 1)[Len(va)]

\* C32: after a link miss with layout L the words of the vertex shader's IR
\* equal the patch for L applied to the freshly translated IR, whatever
\* layouts the same ShaderData was linked with before.
C32_PatchFromFresh ==
    [][ /\ last'.op = "link"
        /\ last'.attempt # NULL
        /\ bound_vshader_data = TrackedShader
        /\ output # NoOutput
        => \E o \in VertexOutputs :
              output'.words = PatchOf(o.words, o.table, last'.va) ]_vars


\* C33: for every table size N >= 1 and every query hash, also one for
\* which hash + probe wraps at 2^64, the slots (hash + probe) % N that a
\* lookup computes for probe = 0..N-1 are N distinct slots.
C33_ProbesDistinct ==
    last.op = "fetch" =>
        \A p, q \in 0..(blob.numShaders - 1) :
            p # q => U64Mod(U64Add(last.fetch.hash, p), blob.numShaders)
                         # U64Mod(U64Add(last.fetch.hash, q), blob.numShaders)


\* C34: over any sequence of link, bind, deleteShader and delete(program)
\* calls, link never returns and the context never has bound a program
\* whose handles have been released or whose record has been freed; after
\* delete(program) on a program link returned, a later link with the same
\* shaders and layout does not return that program.
C34_NoReleasedProgram ==
    ctxState = "alive" =>
        \A p \in ProgramIds :
            (p = bound_program \/ (last.op = "link" /\ last.ret = p))
            => /\ programs[p].st = "live"
               /\ handles[VertexHandleOf(p)] = "live"
               /\ handles[PixelHandleOf(p)] = "live"


\* C35: after destroy-context, following any sequence of link and
\* deleteShader calls, every GPU shader handle a creation call returned has
\* been released, every cache key and every program record has been freed,
\* and every archive binary loaded at open time has been freed.
C35_NoLeak ==
    ctxState = "destroyed" =>
        /\ \A h \in HandleIds : handles[h] # "live"
        /\ \A p \in ProgramIds : programs[p].st # "live"
        /\ \A k \in ProgramIds : keys[k] # "live"
        /\ \A i \in DOMAIN blob.binaries : blob.binaries[i] # "live"

\* A context with a two-entry archive was destroyed while a program built
\* from archive binaries was in the cache (its shaders are still alive, no
\* link failed for lack of a key): its handles are released, its key and
\* record freed, and both binaries freed.
C35_Witness ==
    /\ ctxState = "destroyed"
    /\ blob.numShaders = 2
    /\ blob.binaries = << "freed", "freed" >>
    /\ \E p \in ProgramIds :
          /\ programs[p].st = "freed"
          /\ keys[p] = "freed"
          /\ handles[VertexHandleOf(p)] = "released"
          /\ handles[PixelHandleOf(p)] = "released"
          /\ shaderData[programs[p].vertexShaderData].st = "live"
          /\ shaderData[programs[p].pixelShaderData].st = "live"

=============================================================================
